---- MODULE Spec2Model ----
(***************************************************************************)
(* Model of cmdcmd/cmd.py: the command registry (CLI), the command         *)
(* dispatch (Command.run_argv_aliases, Command.run_direct), the option     *)
(* parser adapter (Option, get_optparser, parse_args) and the argument     *)
(* binder (_match_argform).                                                *)
(*                                                                         *)
(* The specifications share the variables:                                 *)
(*   Spec     the registry: CLI construction, add_command, get_command,    *)
(*            has_command                                                  *)
(*   SpecRun  one CLI.run(argv) after another on a constructed CLI         *)
(*   SpecOpt  CLI.run of a command with an option of every variant         *)
(*   SpecBind the argument binder on grammars of distinct specs          *)
(*   SpecArgs the argument binder on any sequence of specs                 *)
(*   SpecInst a caller keeping and mutating the instances of get_command   *)
(*   SpecLock the lock files of cmd/util.py (Lock.lock, Lock.unlock)       *)
(*   SpecBag  the CLI beside a second CLI instance of the same process     *)
(*   SpecProbe parse_args and get_help_text of hidden options with hooks   *)
(***************************************************************************)
EXTENDS Integers, Sequences, FiniteSets, TLC

VARIABLES
    registry,   \* CLI._registry: ordered dict, a sequence of [name, cls]
    pc,         \* position of the caller: "idle", inside CLI.run, or "done"
    op,         \* the operation in progress or just finished
    req,        \* the arguments of that operation
    res,        \* its outcome: a returned value or a raised error
    cur,        \* the class of the command instance CLI.run resolved
    kwargs,     \* all_cmd_args handed to run_direct
    hooks,      \* the hook invocations of the dispatch so far, in order
    out,        \* what the dispatch wrote to sys.stdout
    direct,     \* the outcome of Command.run_direct, before CLI.run wraps it
    heap,       \* the dicts and lists reached through references, by id
    cmd_param,  \* __cmd_param__ of every command class: the id of a dict
    instances,  \* the command instances the caller holds, in order of creation
    files,      \* the lock files that exist
    fileno      \* Lock._fileno of every Lock object

vars == <<registry, pc, op, req, res, cur, kwargs, hooks, out, direct,
          heap, cmd_param, instances, files, fileno>>

(***************************************************************************)
(* Bounds                                                                  *)
(***************************************************************************)
\* longest commands sequence given to the CLI constructor
MaxInitCommands == 2
\* longest argv given to CLI.run (command token included)
MaxArgv == 3

(***************************************************************************)
(* Python values                                                           *)
(***************************************************************************)
None == [t |-> "None"]
PyInt(n) == [t |-> "int", v |-> n]
\* a str, kept as the pieces the code formats it from; "" is Str(<<>>)
Str(pieces) == [t |-> "str", s |-> pieces]
\* an exception instance: its class and its message (the pieces of str(e))
Exc(kind, msg) == [t |-> "exc", kind |-> kind, msg |-> msg]
\* a command instance: command(**command.__cmd_param__)
Instance(cls) == [t |-> "instance", cls |-> cls]

\* bool(v) as `if not ret` and `x or 0` take it
Truthy(v) ==
    CASE v.t = "None" -> FALSE
      [] v.t = "int" -> v.v # 0
      [] v.t = "str" -> v.s # <<>>
      [] OTHER -> TRUE

\* the two ways a call ends
Return(v) == [raised |-> FALSE, val |-> v]
Raise(e) == [raised |-> TRUE, exc |-> e]

NoCall == [raised |-> FALSE, val |-> [t |-> "nothing"]]

(***************************************************************************)
(* Exception classes: isinstance(e, C) follows the class hierarchy         *)
(***************************************************************************)
Bases(kind) ==
    CASE kind = "CommandError" -> {"CommandError", "RuntimeError", "Exception"}
      [] kind = "NotImplementedError" -> {"NotImplementedError", "RuntimeError", "Exception"}
      [] kind = "KeyError" -> {"KeyError", "LookupError", "Exception"}
      [] kind = "ValueError" -> {"ValueError", "Exception"}
      [] kind = "TypeError" -> {"TypeError", "Exception"}
      [] kind = "LockError" -> {"LockError", "RuntimeError", "Exception"}
      [] kind \in {"CannotLockError", "AlreadyLockedError", "AlreadyUnlockedError"} ->
            {kind, "LockError", "RuntimeError", "Exception"}
      [] OTHER -> {kind, "Exception"}

IsInstance(e, class) == class \in Bases(e.kind)

(***************************************************************************)
(* Command classes.  The registry reads name() and aliases; the dispatch   *)
(* reads takes_args, takes_options and the docstring.                      *)
(***************************************************************************)
\* Option descriptors: Option(name, type=..., short_name=..., hidden=...,
\* custom_callback=...)
opt_protocol ==
    [name |-> "protocol", type |-> "Protocol", short_name |-> "p", list |-> FALSE,
     hidden |-> FALSE, custom_callback |-> "None"]
opt_verbose ==
    [name |-> "verbose", type |-> "None", short_name |-> "v", list |-> FALSE,
     hidden |-> FALSE, custom_callback |-> "None"]
opt_no_color ==
    [name |-> "no-color", type |-> "None", short_name |-> "", list |-> FALSE,
     hidden |-> FALSE, custom_callback |-> "None"]
\* ListOption(name, type=..., short_name=...)
opt_layer ==
    [name |-> "layer", type |-> "Protocol", short_name |-> "l", list |-> TRUE,
     hidden |-> FALSE, custom_callback |-> "None"]

\* hidden options that have a post-process hook, one of every variant; the
\* hook "record" appends the (name, value) it is called with to the tuple
\* parser.values.calls
opt_dry_run ==
    [name |-> "dry-run", type |-> "None", short_name |-> "n", list |-> FALSE,
     hidden |-> TRUE, custom_callback |-> "record"]
opt_api_key ==
    [name |-> "api-key", type |-> "str", short_name |-> "k", list |-> FALSE,
     hidden |-> TRUE, custom_callback |-> "record"]
opt_tag_name ==
    [name |-> "tag-name", type |-> "str", short_name |-> "t", list |-> TRUE,
     hidden |-> TRUE, custom_callback |-> "record"]

Classes == {"cmd_help", "cmd_foo", "cmd_spam", "cmd_bar", "cmd_spam_b", "cmd_help_b"}
BuiltinHelp == "cmd_help"
UserClasses == Classes \ {BuiltinHelp}

\* cmd_spam_b and cmd_help_b are classes of another module whose __name__
\* is cmd_spam and cmd_help: name() is computed from __name__ alone.
\* cmd_fetch is a command that declares one option of every variant;
\* cmd_probe declares hidden options with hooks and a visible one.
ClassName(c) ==
    CASE c = "cmd_help" -> "cmd_help"
      [] c = "cmd_help_b" -> "cmd_help"
      [] c = "cmd_foo" -> "cmd_foo"
      [] c = "cmd_spam" -> "cmd_spam"
      [] c = "cmd_spam_b" -> "cmd_spam"
      [] c = "cmd_bar" -> "cmd_bar"
      [] c = "cmd_fetch" -> "cmd_fetch"
      [] c = "cmd_probe" -> "cmd_probe"

\* _unsquish_command_name: identifier[4:].replace("_", "-")
unsquish_command_name(identifier) ==
    CASE identifier = "cmd_help" -> "help"
      [] identifier = "cmd_foo" -> "foo"
      [] identifier = "cmd_spam" -> "spam"
      [] identifier = "cmd_bar" -> "bar"
      [] identifier = "cmd_fetch" -> "fetch"
      [] identifier = "cmd_probe" -> "probe"

\* Command.name (classmethod)
name(c) == unsquish_command_name(ClassName(c))

aliases(c) ==
    CASE c = "cmd_help" -> {"?", "--help", "-?", "-h"}
      [] c = "cmd_spam" -> {"eggs"}
      [] c = "cmd_bar" -> {"eggs", "foo"}
      [] OTHER -> {}

takes_args(c) ==
    CASE c = "cmd_help" -> <<"topic?">>
      [] c = "cmd_spam" -> <<"a">>
      [] c = "cmd_bar" -> <<"src$", "dst">>
      [] OTHER -> <<>>

takes_options(c) ==
    CASE c = "cmd_foo" -> <<opt_protocol>>
      [] c = "cmd_spam" -> <<opt_verbose>>
      [] c = "cmd_fetch" -> <<opt_protocol, opt_verbose, opt_no_color, opt_layer>>
      [] c = "cmd_probe" -> <<opt_dry_run, opt_api_key, opt_tag_name, opt_verbose>>
      [] OTHER -> <<>>

\* whether the class has a docstring of its own (Command.help)
HasDoc(c) == c # "cmd_foo"

(***************************************************************************)
(* The registry: an insertion-ordered dict                                 *)
(***************************************************************************)
Keys(reg) == {reg[i].name : i \in DOMAIN reg}

\* a variant that puts a new key first
DictSet_mutant(reg, key, cls) ==
    IF key \in Keys(reg)
    THEN [i \in DOMAIN reg |->
            IF reg[i].name = key THEN [name |-> key, cls |-> cls] ELSE reg[i]]
    ELSE <<[name |-> key, cls |-> cls]>> \o reg

\* dict[key] = value: in place when the key exists, appended otherwise
DictSet(reg, key, cls) ==
    IF key \in Keys(reg)
    THEN [i \in DOMAIN reg |->
            IF reg[i].name = key THEN [name |-> key, cls |-> cls] ELSE reg[i]]
    ELSE Append(reg, [name |-> key, cls |-> cls])

DictGet(reg, key) == reg[CHOOSE i \in DOMAIN reg : reg[i].name = key].cls

RECURSIVE DictUpdate(_, _)
DictUpdate(reg, pairs) ==
    IF pairs = <<>> THEN reg
    ELSE DictUpdate(DictSet(reg, Head(pairs).name, Head(pairs).cls), Tail(pairs))

\* CLI.scan_commands over the dict {c.name(): c for c in commands}: one
\* (item.name(), item) pair per value of the dict, in the dict's order
scan_commands(commands) ==
    DictUpdate(<<>>, [i \in DOMAIN commands |->
                        [name |-> name(commands[i]), cls |-> commands[i]]])

\* a variant that assigns the scanned dict in place of updating with it
add_commands_mutant(reg, commands) ==
    [i \in DOMAIN commands |-> [name |-> name(commands[i]), cls |-> commands[i]]]

\* CLI.add_commands with a list or tuple of classes
add_commands(reg, commands) == DictUpdate(reg, scan_commands(commands))

\* CLI.add_command
add_command(reg, command) == add_commands(reg, <<command>>)

\* a variant that registers the built-in help before the given commands
CLI_init_mutant(commands) == add_commands(add_command(<<>>, BuiltinHelp), commands)

\* CLI.__init__: the given commands, then the built-in help
CLI_init(commands) == add_command(add_commands(<<>>, commands), BuiltinHelp)

\* a variant that takes the last command that has the alias
FirstWithAlias_mutant(reg, n) ==
    LET hits == {i \in DOMAIN reg : n \in aliases(reg[i].cls)}
    IN  IF hits = {} THEN 0 ELSE CHOOSE i \in hits : \A j \in hits : i >= j

\* the first command, in the dict's order, that has the alias
FirstWithAlias(reg, n) ==
    LET hits == {i \in DOMAIN reg : n \in aliases(reg[i].cls)}
    IN  IF hits = {} THEN 0 ELSE CHOOSE i \in hits : \A j \in hits : i <= j

KeyError(n) == Exc("KeyError", <<"No such command ", n>>)

\* a variant that looks through the aliases whatever the flag is
get_command_mutant(reg, n, alias) ==
    IF n \in Keys(reg) THEN Return(Instance(DictGet(reg, n)))
    ELSE IF FirstWithAlias(reg, n) # 0
         THEN Return(Instance(reg[FirstWithAlias(reg, n)].cls))
         ELSE Raise(KeyError(n))

\* CLI.get_command
get_command(reg, n, alias) ==
    IF n \in Keys(reg) THEN Return(Instance(DictGet(reg, n)))
    ELSE IF alias /\ FirstWithAlias(reg, n) # 0
         THEN Return(Instance(reg[FirstWithAlias(reg, n)].cls))
         ELSE Raise(KeyError(n))

\* a variant that looks at the registry's keys alone
has_command_mutant(reg, n, alias) == n \in Keys(reg)

\* CLI.has_command
has_command(reg, n, alias) ==
    IF alias /\ FirstWithAlias(reg, n) # 0 THEN TRUE ELSE n \in Keys(reg)

(***************************************************************************)
(* The heap.  A dict or list that is reached through a reference is an     *)
(* entry of the heap; two references are the same object when they are the *)
(* same id.  An object that no reference reaches is freed.  An id is only  *)
(* a name: the state names the objects in the order in which the classes   *)
(* and then the instances refer to them.                                   *)
(***************************************************************************)
ClassOrder ==
    <<"cmd_help", "cmd_foo", "cmd_spam", "cmd_bar", "cmd_spam_b", "cmd_help_b",
      "cmd_fetch">>

\* Command.__cmd_param__ = {}, the class attribute every command inherits
CommandParam == 0

\* the keyword arguments CLI.__init__ hands to add_commands and add_command
InitParam ==
    [k \in {"cmd:help_output", "cmd:tool_name"} |->
        IF k = "cmd:tool_name" THEN "tool" ELSE "CLI._output_help"]

\* the keyword arguments of an add_command call of the caller, as
\* add_commands completes them
AddParam == [k \in {"cmd:help_output"} |-> "CLI._output_help"]

\* the id of a new object: the first that is free
Alloc(h) ==
    CHOOSE i \in 1..(Cardinality(DOMAIN h) + 1) :
        i \notin DOMAIN h /\ \A j \in 1..(i - 1) : j \in DOMAIN h

Put(h, id, obj) == [i \in DOMAIN h \cup {id} |-> IF i = id THEN obj ELSE h[i]]

\* the references, in order: the classes', then the instances'
RefSeq(cp, insts) ==
    [k \in 1..(Len(ClassOrder) + 2 * Len(insts)) |->
        IF k <= Len(ClassOrder) THEN cp[ClassOrder[k]]
        ELSE IF (k - Len(ClassOrder)) % 2 = 1
             THEN insts[(k - Len(ClassOrder) + 1) \div 2].param
             ELSE insts[(k - Len(ClassOrder)) \div 2].supported_std_options]

\* the name of an object: how many objects are referred to before it
Rank(refs, id) ==
    IF id = CommandParam THEN CommandParam
    ELSE Cardinality({refs[m] : m \in 1..((CHOOSE k \in DOMAIN refs :
                         refs[k] = id /\ \A n \in 1..(k - 1) : refs[n] # id) - 1)}
                     \ {CommandParam}) + 1

\* the objects that are referred to, and the references, under their names
Renamed(h, cp, insts, refs) ==
    [heap |->
        [n \in {Rank(refs, refs[k]) : k \in DOMAIN refs} \cup {CommandParam} |->
            IF n = CommandParam THEN h[CommandParam]
            ELSE h[refs[CHOOSE k \in DOMAIN refs : Rank(refs, refs[k]) = n]]],
     cmd_param |-> [c \in DOMAIN cp |-> Rank(refs, cp[c])],
     instances |->
        [k \in DOMAIN insts |->
            [cls |-> insts[k].cls,
             param |-> Rank(refs, insts[k].param),
             supported_std_options |-> Rank(refs, insts[k].supported_std_options)]]]

Norm(h, cp, insts) == Renamed(h, cp, insts, RefSeq(cp, insts))

\* CLI.scan_commands: item.__cmd_param__ = param, one dict for the call
SetClassParam(cp, commands, id) ==
    [c \in DOMAIN cp |->
        IF \E i \in DOMAIN scan_commands(commands) : scan_commands(commands)[i].cls = c
        THEN id ELSE cp[c]]

\* the heap, the classes' __cmd_param__ and the caller's instances after
\* CLI.add_commands(commands, **param)
AddParams(h, cp, insts, commands, param) ==
    Norm(Put(h, Alloc(h), param), SetClassParam(cp, commands, Alloc(h)), insts)

\* a variant that keeps the dict it is given as the instance's bag
NewInstance_mutant(h, cls, src) ==
    [heap |-> Put(h, Alloc(h), <<>>),
     inst |-> [cls |-> cls, param |-> src, supported_std_options |-> Alloc(h)]]

\* command(**command.__cmd_param__), Command.__init__: the bag is a new
\* dict with the items of the class's, supported_std_options a new list
NewInstance(h, cls, src) ==
    [heap |-> Put(Put(h, Alloc(h), h[src]), Alloc(Put(h, Alloc(h), h[src])), <<>>),
     inst |-> [cls |-> cls, param |-> Alloc(h),
               supported_std_options |-> Alloc(Put(h, Alloc(h), h[src]))]]

\* the heap and the classes' __cmd_param__ that CLI.__init__ leaves: the
\* given commands share one dict, the built-in help has its own
CLI_init_heap(commands) ==
    AddParams(AddParams([i \in {CommandParam} |-> <<>>],
                        [c \in {ClassOrder[i] : i \in DOMAIN ClassOrder} |-> CommandParam], <<>>,
                        commands, InitParam).heap,
              AddParams([i \in {CommandParam} |-> <<>>],
                        [c \in {ClassOrder[i] : i \in DOMAIN ClassOrder} |-> CommandParam], <<>>,
                        commands, InitParam).cmd_param,
              <<>>, <<BuiltinHelp>>, InitParam)

(***************************************************************************)
(* Lock files (cmd/util.py).  The lock directory is the one Lock.__init__  *)
(* made or found writable.                                                 *)
(***************************************************************************)
\* the Lock objects of the caller and the lock file of each: a and b are
\* Lock(process, name) with the same arguments, c has another name
LockObjects == {"a", "b", "c"}
Path(l) == IF l = "c" THEN "LOCKDIR/tool/other" ELSE "LOCKDIR/tool/name"

\* the descriptors os.open may return
Descriptors == {PyInt(3), PyInt(4)}

\* Lock.lock(tryonly) on the files fs, with fd what os.open returns; the
\* os.write of a str writes on Python 2 and raises TypeError on Python 3
lock(fno, fs, l, tryonly, fd, py3) ==
    IF fno[l] # None
    THEN [result |-> Raise(Exc("AlreadyLockedError", <<Path(l)>>)),
          fileno |-> fno, files |-> fs]
    ELSE IF Path(l) \in fs
    THEN [result |-> IF tryonly THEN Return([t |-> "bool", v |-> FALSE])
                     ELSE Raise(Exc("LockError", <<Path(l)>>)),
          fileno |-> fno, files |-> fs]
    ELSE [result |->
             IF py3
             THEN Raise(Exc("TypeError", <<"a bytes-like object is required, not 'str'">>))
             ELSE Return([t |-> "bool", v |-> TRUE]),
          fileno |-> [fno EXCEPT ![l] = fd],
          files |-> fs \cup {Path(l)}]

\* Lock.unlock
unlock(fno, fs, l) ==
    IF fno[l] = None
    THEN [result |-> Raise(Exc("AlreadyUnlockedError", <<Path(l)>>)),
          fileno |-> fno, files |-> fs]
    ELSE IF Path(l) \notin fs
    THEN [result |-> Raise(Exc("OSError", <<"No such file or directory: ", Path(l)>>)),
          fileno |-> fno, files |-> fs]
    ELSE [result |-> Return(None),
          fileno |-> [fno EXCEPT ![l] = None],
          files |-> fs \ {Path(l)}]

(***************************************************************************)
(* Command-line tokens.  A token is a Python str; Lex gives the parts      *)
(* optparse takes it apart into: arg[0:2] == "--", arg[:1] == "-",         *)
(* arg.split("=", 1), and the characters of a short-option cluster.        *)
(***************************************************************************)
LongTok(n) == [kind |-> "long", name |-> n, explicit |-> FALSE, value |-> ""]
LongEq(n, v) == [kind |-> "long", name |-> n, explicit |-> TRUE, value |-> v]
\* tails[i] is what follows the i-th character of the cluster
ShortTok(chars, tails) == [kind |-> "short", chars |-> chars, tails |-> tails]
ArgTok == [kind |-> "arg"]

Lex(tok) ==
    CASE tok = "--" -> [kind |-> "dashdash"]
      [] tok = "--help" -> LongTok("help")
      [] tok = "--usage" -> LongTok("usage")
      [] tok = "--bogus" -> LongTok("bogus")
      [] tok = "--he" -> LongTok("he")
      [] tok = "--no-help" -> LongTok("no-help")
      [] tok = "--protocol" -> LongTok("protocol")
      [] tok = "--protocol=tcp" -> LongEq("protocol", "tcp")
      [] tok = "--protocol=bananas" -> LongEq("protocol", "bananas")
      [] tok = "--protocol=udp" -> LongEq("protocol", "udp")
      [] tok = "--layer" -> LongTok("layer")
      [] tok = "--layer=tcp" -> LongEq("layer", "tcp")
      [] tok = "--layer=udp" -> LongEq("layer", "udp")
      [] tok = "--layer=-" -> LongEq("layer", "-")
      [] tok = "--no-color" -> LongTok("no-color")
      [] tok = "--color" -> LongTok("color")
      [] tok = "-l" -> ShortTok(<<"l">>, <<"">>)
      [] tok = "--verbose" -> LongTok("verbose")
      [] tok = "--no-verbose" -> LongTok("no-verbose")
      [] tok = "--verbose=tcp" -> LongEq("verbose", "tcp")
      [] tok = "-h" -> ShortTok(<<"h">>, <<"">>)
      [] tok = "-?" -> ShortTok(<<"?">>, <<"">>)
      [] tok = "-p" -> ShortTok(<<"p">>, <<"">>)
      [] tok = "-v" -> ShortTok(<<"v">>, <<"">>)
      [] tok = "-vh" -> ShortTok(<<"v", "h">>, <<"h", "">>)
      [] tok = "--dry-run" -> LongTok("dry-run")
      [] tok = "--no-dry-run" -> LongTok("no-dry-run")
      [] tok = "-n" -> ShortTok(<<"n">>, <<"">>)
      [] tok = "-nn" -> ShortTok(<<"n", "n">>, <<"n", "">>)
      [] tok = "--api-key=s" -> LongEq("api-key", "s")
      [] tok = "-ks" -> ShortTok(<<"k", "s">>, <<"s", "">>)
      [] tok = "--tag-name=a" -> LongEq("tag-name", "a")
      [] tok = "--tag-name=-" -> LongEq("tag-name", "-")
      [] tok = "-tb" -> ShortTok(<<"t", "b">>, <<"b", "">>)
      [] tok = "-ptcp" -> ShortTok(<<"p", "t", "c", "p">>, <<"tcp", "cp", "p", "">>)
      [] OTHER -> ArgTok

\* w.startswith(s), for the long names the tokens and the options use
StartsWith(w, s) ==
    \/ w = s
    \/ <<s, w>> \in {<<"he", "help">>}

(***************************************************************************)
(* Option and the optparse parser built from it                            *)
(***************************************************************************)
\* the standard options: _standard_option("help", short_name="h"), ("usage")
std_help ==
    [name |-> "help", type |-> "None", short_name |-> "h", list |-> FALSE,
     hidden |-> FALSE, custom_callback |-> "None"]
std_usage ==
    [name |-> "usage", type |-> "None", short_name |-> "", list |-> FALSE,
     hidden |-> FALSE, custom_callback |-> "None"]
STD_OPTIONS == <<std_help, std_usage>>

\* Option.get_negation_name
get_negation_name(o) ==
    CASE o.name = "no-color" -> "color"
      [] OTHER ->
           CASE o.name = "help" -> "no-help"
             [] o.name = "usage" -> "no-usage"
             [] o.name = "verbose" -> "no-verbose"
             [] o.name = "dry-run" -> "no-dry-run"

\* Option.__init__: self.name.replace("-", "_")
param_name(o) ==
    CASE o.name = "no-color" -> "no_color"
      [] o.name = "dry-run" -> "dry_run"
      [] o.name = "api-key" -> "api_key"
      [] o.name = "tag-name" -> "tag_name"
      [] OTHER -> o.name

\* result[opt.name] = opt on the copy of STD_OPTIONS
RECURSIVE OptionsUpdate(_, _)
OptionsUpdate(result, opts) ==
    IF opts = <<>> THEN result
    ELSE LET o == Head(opts)
             at == {i \in DOMAIN result : result[i].name = o.name}
         IN  OptionsUpdate(
                IF at = {} THEN Append(result, o)
                ELSE [i \in DOMAIN result |-> IF i \in at THEN o ELSE result[i]],
                Tail(opts))

\* Command.options
options(c) == OptionsUpdate(STD_OPTIONS, takes_options(c))

\* optparse.SUPPRESS_HELP, and the help message of an option (self.help)
SUPPRESS_HELP == <<"SUPPRESSHELP">>
Help(o) == <<"help of ", o.name>>

\* Option.add_option: _help
HelpUnlessHidden(o) == IF o.hidden THEN SUPPRESS_HELP ELSE Help(o)

\* a variant whose negation switch stores true as well
add_option_mutant(o) ==
    IF o.list
    THEN <<[long |-> o.name, short |-> o.short_name, takes_value |-> TRUE,
            callback |-> "list", bool_v |-> FALSE, opt |-> o, help |-> Help(o)]>>
    ELSE IF o.type = "None"
    THEN <<[long |-> o.name, short |-> o.short_name, takes_value |-> FALSE,
            callback |-> "bool", bool_v |-> TRUE, opt |-> o, help |-> HelpUnlessHidden(o)],
           [long |-> get_negation_name(o), short |-> "", takes_value |-> FALSE,
            callback |-> "bool", bool_v |-> TRUE, opt |-> o, help |-> SUPPRESS_HELP]>>
    ELSE <<[long |-> o.name, short |-> o.short_name, takes_value |-> TRUE,
            callback |-> "value", bool_v |-> FALSE, opt |-> o, help |-> HelpUnlessHidden(o)]>>

\* Option.add_option / ListOption.add_option: the optparse options one
\* Option adds to the parser
add_option(o) ==
    IF o.list
    THEN <<[long |-> o.name, short |-> o.short_name, takes_value |-> TRUE,
            callback |-> "list", bool_v |-> FALSE, opt |-> o, help |-> Help(o)]>>
    ELSE IF o.type = "None"
    THEN <<[long |-> o.name, short |-> o.short_name, takes_value |-> FALSE,
            callback |-> "bool", bool_v |-> TRUE, opt |-> o, help |-> HelpUnlessHidden(o)],
           [long |-> get_negation_name(o), short |-> "", takes_value |-> FALSE,
            callback |-> "bool", bool_v |-> FALSE, opt |-> o, help |-> SUPPRESS_HELP]>>
    ELSE <<[long |-> o.name, short |-> o.short_name, takes_value |-> TRUE,
            callback |-> "value", bool_v |-> FALSE, opt |-> o, help |-> HelpUnlessHidden(o)]>>

\* get_optparser: remove_option("--help"), then every option's add_option
RECURSIVE get_optparser(_)
get_optparser(opts) ==
    IF opts = <<>> THEN <<>> ELSE add_option(Head(opts)) \o get_optparser(Tail(opts))

\* parser.format_option_help(): the switches and the help of every option
\* of the parser whose help is not SUPPRESS_HELP
RECURSIVE format_option_help(_)
format_option_help(parser) ==
    IF parser = <<>> THEN <<>>
    ELSE (IF Head(parser).help = SUPPRESS_HELP THEN <<>>
          ELSE (IF Head(parser).short = "" THEN <<>> ELSE <<"-", Head(parser).short>>)
               \o <<"--", Head(parser).long>> \o Head(parser).help)
         \o format_option_help(Tail(parser))

DEFAULT_VALUE == [t |-> "DEFAULT_VALUE"]
PyBool(b) == [t |-> "bool", v |-> b]
PyList(items) == [t |-> "list", items |-> items]
PyTuple(items) == [t |-> "tuple", items |-> items]
Member(enum, m) == [t |-> "enum", enum |-> enum, member |-> m]

\* parser.defaults: optparse gives every option that has a dest its default
\* (dest is the long name with "-" replaced by "_")
RECURSIVE Defaults(_)
Defaults(parser) ==
    IF parser = <<>> THEN <<>>
    ELSE LET e == Head(parser) rest == Defaults(Tail(parser))
         IN  IF e.callback = "list" THEN (param_name(e.opt) :> PyList(<<>>)) @@ rest
             ELSE IF e.callback = "value" THEN (param_name(e.opt) :> DEFAULT_VALUE) @@ rest
             ELSE rest

\* self.type(value): the converter of a value option
Convert(type, value) ==
    CASE type = "Protocol" ->
           CASE value = "udp" -> Return(Member("Protocol", "UDP"))
             [] value = "tcp" -> Return(Member("Protocol", "TCP"))
             [] value = "icmp" -> Return(Member("Protocol", "ICMP"))
             [] value = "arp" -> Return(Member("Protocol", "ARP"))
             [] OTHER -> Raise(Exc("ValueError", <<value, " is not a valid Protocol">>))
      [] OTHER -> Return(Str(<<value>>))

Set(values, key, v) == (key :> v) @@ values

\* self.custom_callback(option, name, value, parser), when the option has
\* one: the hook "record" appends (name, value) to parser.values.calls
custom_callback(o, hook_name, v, values) ==
    IF o.custom_callback = "None" THEN values
    ELSE Set(values, "calls",
             PyTuple(Append(IF "calls" \in DOMAIN values THEN values["calls"].items ELSE <<>>,
                            <<hook_name, v>>)))

\* a variant whose list callback ignores the value "-"
Callback_mutant(e, value, values) ==
    CASE e.callback = "bool" ->
           Return(custom_callback(e.opt, param_name(e.opt), PyBool(e.bool_v),
                                  Set(values, param_name(e.opt), PyBool(e.bool_v))))
      [] e.callback = "value" ->
           LET v == Convert(e.opt.type, value)
           IN  IF v.raised THEN v
               ELSE Return(custom_callback(e.opt, e.opt.name, v.val,
                                           Set(values, param_name(e.opt), v.val)))
      [] e.callback = "list" ->
           LET old == values[param_name(e.opt)].items
           IN  IF value = "-"
               THEN Return(custom_callback(e.opt, param_name(e.opt), PyList(old), values))
               ELSE LET v == Convert(e.opt.type, value)
                    IN  IF v.raised THEN v
                        ELSE Return(custom_callback(e.opt, param_name(e.opt),
                                        PyList(Append(old, v.val)),
                                        Set(values, param_name(e.opt),
                                            PyList(Append(old, v.val)))))

\* Option._optparse_bool_callback, Option._optparse_callback and
\* ListOption._optparse_callback: the values after the callback, or the
\* error the converter raised
Callback(e, value, values) ==
    CASE e.callback = "bool" ->
           Return(custom_callback(e.opt, param_name(e.opt), PyBool(e.bool_v),
                                  Set(values, param_name(e.opt), PyBool(e.bool_v))))
      [] e.callback = "value" ->
           LET v == Convert(e.opt.type, value)
           IN  IF v.raised THEN v
               ELSE Return(custom_callback(e.opt, e.opt.name, v.val,
                                           Set(values, param_name(e.opt), v.val)))
      [] e.callback = "list" ->
           LET old == values[param_name(e.opt)].items
           IN  IF value = "-"
               THEN Return(custom_callback(e.opt, param_name(e.opt), PyList(<<>>),
                                           Set(values, param_name(e.opt), PyList(<<>>))))
               ELSE LET v == Convert(e.opt.type, value)
                    IN  IF v.raised THEN v
                        ELSE Return(custom_callback(e.opt, param_name(e.opt),
                                        PyList(Append(old, v.val)),
                                        Set(values, param_name(e.opt),
                                            PyList(Append(old, v.val)))))

\* OptionParser.error
CommandError(msg) == Exc("CommandError", msg)
error(msg) == Raise(CommandError(msg))

ParseOk(values, args) == Return([values |-> values, args |-> args])

\* optparse _match_abbrev: the exact name, else the only name it begins
MatchAbbrev(s, parser) ==
    LET longs == {parser[i].long : i \in DOMAIN parser}
        poss == {w \in longs : StartsWith(w, s)}
    IN  IF s \in longs THEN {s} ELSE poss

ByLong(parser, n) == parser[CHOOSE i \in DOMAIN parser : parser[i].long = n]
ShortHits(parser, ch) == {i \in DOMAIN parser : parser[i].short = ch}

\* what is left to parse after one option: the remaining arguments and
\* the values so far
Rest(rargs, values) == Return([rargs |-> rargs, values |-> values])

\* after the callback of a value option: the converter's error, or on
TakeValue(cb, rargs) == IF cb.raised THEN cb ELSE Rest(rargs, cb.val)

\* optparse _process_long_opt, once the option is found
LongOption(e, explicit, rargs, values) ==
    IF e.takes_value
    THEN IF rargs = <<>>
         THEN error(<<"--", e.long, " option requires 1 argument">>)
         ELSE TakeValue(Callback(e, Head(rargs), values), Tail(rargs))
    ELSE IF explicit
         THEN error(<<"--", e.long, " option does not take a value">>)
         ELSE Rest(rargs, Callback(e, "", values).val)

\* optparse _process_long_opt, from the names `m` the token may stand for
LongMatched(parser, lx, m, rargs, values) ==
    IF m = {} THEN error(<<"no such option: --", lx.name>>)
    ELSE IF Cardinality(m) > 1 THEN error(<<"ambiguous option: --", lx.name>>)
    ELSE LongOption(ByLong(parser, CHOOSE w \in m : TRUE), lx.explicit, rargs, values)

\* optparse _process_long_opt: one "--name" or "--name=value" token
process_long_opt(parser, lx, rest, values) ==
    LongMatched(parser, lx, MatchAbbrev(lx.name, parser),
                IF lx.explicit THEN <<lx.value>> \o rest ELSE rest, values)

\* a variant that stores the value of a short option as it was typed
ShortOption_mutant(e, ch, rargs, values) ==
    IF e.takes_value
    THEN IF rargs = <<>>
         THEN error(<<"-", ch, " option requires 1 argument">>)
         ELSE Rest(Tail(rargs), Set(values, param_name(e.opt), Str(<<Head(rargs)>>)))
    ELSE Callback(e, "", values)

\* optparse _process_short_opts, once the option of a character is found;
\* `ends` says a value option ended the cluster
ShortOption(e, ch, rargs, values) ==
    IF e.takes_value
    THEN IF rargs = <<>>
         THEN error(<<"-", ch, " option requires 1 argument">>)
         ELSE TakeValue(Callback(e, Head(rargs), values), Tail(rargs))
    ELSE Callback(e, "", values)

\* optparse _process_short_opts: one "-abc" cluster, from its i-th character
RECURSIVE process_short_opts(_, _, _, _, _)
process_short_opts(parser, lx, i, rest, values) ==
    IF i > Len(lx.chars) THEN Rest(rest, values)
    ELSE IF ShortHits(parser, lx.chars[i]) = {}
    THEN error(<<"no such option: -", lx.chars[i]>>)
    ELSE IF parser[CHOOSE h \in ShortHits(parser, lx.chars[i]) : TRUE].takes_value
    THEN ShortOption(parser[CHOOSE h \in ShortHits(parser, lx.chars[i]) : TRUE],
                     lx.chars[i],
                     IF lx.tails[i] # "" THEN <<lx.tails[i]>> \o rest ELSE rest,
                     values)
    ELSE process_short_opts(parser, lx, i + 1, rest,
            ShortOption(parser[CHOOSE h \in ShortHits(parser, lx.chars[i]) : TRUE],
                        lx.chars[i], rest, values).val)

\* one option token of either form
process_opt(parser, lx, rest, values) ==
    IF lx.kind = "long" THEN process_long_opt(parser, lx, rest, values)
    ELSE process_short_opts(parser, lx, 1, rest, values)

\* optparse _process_args, as parser.parse_args(args) runs it (interspersed
\* arguments allowed): "--" ends the options, "-" and "" are arguments
RECURSIVE process_args(_, _, _, _)
RECURSIVE process_args_on(_, _, _)
process_args_on(parser, largs, st) ==
    IF st.raised THEN st ELSE process_args(parser, st.val.rargs, largs, st.val.values)

process_args(parser, rargs, largs, values) ==
    IF rargs = <<>> THEN ParseOk(values, largs)
    ELSE IF Lex(Head(rargs)).kind = "dashdash" THEN ParseOk(values, largs \o Tail(rargs))
    ELSE IF Lex(Head(rargs)).kind = "arg"
    THEN process_args(parser, Tail(rargs), Append(largs, Head(rargs)), values)
    ELSE process_args_on(parser, largs,
                         process_opt(parser, Lex(Head(rargs)), Tail(rargs), values))

\* the options given: those no longer at DEFAULT_VALUE
GivenOpts(values) ==
    [k \in {k \in DOMAIN values : values[k] # DEFAULT_VALUE} |-> values[k]]

ParseResult(r) ==
    IF r.raised THEN r ELSE Return([args |-> r.val.args, opts |-> GivenOpts(r.val.values)])

ParseWith(parser, argv) == ParseResult(process_args(parser, argv, <<>>, Defaults(parser)))

\* parse_args: (args, opts), opts without the options left at DEFAULT_VALUE
parse_args(c, argv) == ParseWith(get_optparser(options(c)), argv)

(***************************************************************************)
(* The argument binder                                                     *)
(***************************************************************************)
\* a variant that reads "$" as "+"
LastChar_dollar_mutant(ap) ==
    CASE ap \in {"topic?", "upstream?", "branch?"} -> "?"
      [] ap \in {"pathspec*"} -> "*"
      [] ap \in {"file+", "src$"} -> "+"
      [] ap = "a" -> "a"
      [] ap = "dst" -> "t"

\* a variant that reads "+" as "*"
LastChar_plus_mutant(ap) ==
    CASE ap \in {"topic?", "upstream?", "branch?"} -> "?"
      [] ap \in {"pathspec*", "file+"} -> "*"
      [] ap \in {"src$"} -> "$"
      [] ap = "a" -> "a"
      [] ap = "dst" -> "t"

\* a variant that reads the last character of "dst" as "?"
LastChar_plain_mutant(ap) ==
    CASE ap \in {"topic?", "upstream?", "branch?", "dst"} -> "?"
      [] ap \in {"pathspec*"} -> "*"
      [] ap \in {"file+"} -> "+"
      [] ap \in {"src$"} -> "$"
      [] ap = "a" -> "a"

\* ap[-1] and ap[:-1] of the argument specs the commands declare
LastChar(ap) ==
    CASE ap \in {"topic?", "upstream?", "branch?"} -> "?"
      [] ap \in {"pathspec*"} -> "*"
      [] ap \in {"file+"} -> "+"
      [] ap \in {"src$"} -> "$"
      [] ap = "a" -> "a"
      [] ap = "dst" -> "t"

ButLast(ap) ==
    CASE ap = "topic?" -> "topic"
      [] ap = "upstream?" -> "upstream"
      [] ap = "branch?" -> "branch"
      [] ap = "pathspec*" -> "pathspec"
      [] ap = "file+" -> "file"
      [] ap = "src$" -> "src"
      [] ap = "a" -> ""
      [] ap = "dst" -> "ds"

\* argname + "_list"
ListName(argname) ==
    CASE argname = "pathspec" -> "pathspec_list"
      [] argname = "file" -> "file_list"
      [] argname = "src" -> "src_list"

\* argname.upper()
Upper(argname) ==
    CASE argname = "topic" -> "TOPIC"
      [] argname = "upstream" -> "UPSTREAM"
      [] argname = "branch" -> "BRANCH"
      [] argname = "pathspec" -> "PATHSPEC"
      [] argname = "file" -> "FILE"
      [] argname = "src" -> "SRC"
      [] argname = "a" -> "A"
      [] argname = "dst" -> "DST"

\* the loop of _match_argform over takes_args, then the leftover check
RECURSIVE match_argform_loop(_, _, _, _)
match_argform_loop(cmd, specs, args, argdict) ==
    IF specs = <<>>
    THEN IF args # <<>>
         THEN Raise(CommandError(<<"extra argument to command ", cmd, ": ", Head(args)>>))
         ELSE Return(argdict)
    ELSE LET ap == Head(specs)
             argname == ButLast(ap)
             more == Tail(specs)
         IN  CASE LastChar(ap) = "?" ->
                    IF args # <<>>
                    THEN match_argform_loop(cmd, more, Tail(args),
                                            Set(argdict, argname, Str(<<Head(args)>>)))
                    ELSE match_argform_loop(cmd, more, args, argdict)
               [] LastChar(ap) = "*" ->
                    IF args # <<>>
                    THEN match_argform_loop(cmd, more, <<>>,
                                            Set(argdict, ListName(argname), PyList(args)))
                    ELSE match_argform_loop(cmd, more, args,
                                            Set(argdict, ListName(argname), PyTuple(<<>>)))
               [] LastChar(ap) = "+" ->
                    IF args = <<>>
                    THEN Raise(CommandError(<<"command ", cmd, " needs one or more ",
                                              Upper(argname)>>))
                    ELSE match_argform_loop(cmd, more, <<>>,
                                            Set(argdict, ListName(argname), PyList(args)))
               [] LastChar(ap) = "$" ->
                    IF Len(args) < 2
                    THEN Raise(CommandError(<<"command ", cmd, " needs one or more ",
                                              Upper(argname)>>))
                    ELSE match_argform_loop(cmd, more, <<args[Len(args)]>>,
                            Set(argdict, ListName(argname),
                                PyList(SubSeq(args, 1, Len(args) - 1))))
               [] OTHER ->
                    IF args = <<>>
                    THEN Raise(CommandError(<<"command ", cmd, " requires argument ",
                                              Upper(ap)>>))
                    ELSE match_argform_loop(cmd, more, Tail(args),
                                            Set(argdict, ap, Str(<<Head(args)>>)))

\* a variant that hands out the tokens from the last one to the first
match_argform_mutant(cmd, specs, args) ==
    match_argform_loop(cmd, specs, [i \in DOMAIN args |-> args[Len(args) + 1 - i]], <<>>)

\* _match_argform
match_argform(cmd, specs, args) == match_argform_loop(cmd, specs, args, <<>>)

(***************************************************************************)
(* Command: help text, run_argv_aliases, run_direct                        *)
(***************************************************************************)
NotImplementedError(msg) == Exc("NotImplementedError", msg)

\* Command.get_help_text: the text, or the error of a class that has no
\* docstring (Command.help returns None)
get_help_text(c, verbose) ==
    IF ~HasDoc(c)
    THEN Raise(NotImplementedError(<<"sorry, no detailed help yet for ", name(c)>>))
    ELSE Return(Str(<<IF verbose THEN "help text of " ELSE "usage text of ", name(c),
                      ":Options:">>
                    \o format_option_help(get_optparser(options(c)))))

\* the keyword a bound option is passed under: "_" + k for a Python
\* keyword, then k.replace("-", "_")
KeywordName(k) ==
    CASE k = "continue" -> "_continue"
      [] OTHER -> k

\* all_cmd_args: cmdargs.copy() updated with cmdopts
MergeArgs(cmdargs, opts) ==
    LET cmdopts == [k \in {KeywordName(o) : o \in DOMAIN opts} |->
                      opts[CHOOSE o \in DOMAIN opts : KeywordName(o) = k]]
    IN  cmdopts @@ cmdargs

Ends(outp, result) == [out |-> outp, ends |-> TRUE, result |-> result]
Calls(kw) == [out |-> <<>>, ends |-> FALSE, result |-> Return(kw)]

\* sys.stdout.write(self.get_help_text(...)); return 0
WriteHelp(text) ==
    IF text.raised THEN Ends(<<>>, text) ELSE Ends(<<text.val>>, Return(PyInt(0)))

\* a variant that goes on to run_direct when the binder has failed
Bound_mutant(cmdargs, opts) ==
    IF cmdargs.raised THEN Calls(opts) ELSE Calls(MergeArgs(cmdargs.val, opts))

\* the end of run_argv_aliases: the binder's error, or the call of
\* run_direct with the merged arguments
Bound(cmdargs, opts) ==
    IF cmdargs.raised THEN Ends(<<>>, cmdargs) ELSE Calls(MergeArgs(cmdargs.val, opts))

\* a variant that binds the positional arguments before it looks at help
Parsed_mutant(c, parsed) ==
    IF parsed.raised THEN Ends(<<>>, parsed)
    ELSE IF match_argform(name(c), takes_args(c), parsed.val.args).raised
    THEN Ends(<<>>, match_argform(name(c), takes_args(c), parsed.val.args))
    ELSE IF "help" \in DOMAIN parsed.val.opts THEN WriteHelp(get_help_text(c, TRUE))
    ELSE IF "usage" \in DOMAIN parsed.val.opts THEN WriteHelp(get_help_text(c, FALSE))
    ELSE Bound(match_argform(name(c), takes_args(c), parsed.val.args), parsed.val.opts)

\* run_argv_aliases after parse_args
Parsed(c, parsed) ==
    IF parsed.raised THEN Ends(<<>>, parsed)
    ELSE IF "help" \in DOMAIN parsed.val.opts THEN WriteHelp(get_help_text(c, TRUE))
    ELSE IF "usage" \in DOMAIN parsed.val.opts THEN WriteHelp(get_help_text(c, FALSE))
    ELSE Bound(match_argform(name(c), takes_args(c), parsed.val.args), parsed.val.opts)

\* Command.run_argv_aliases up to the call of run_direct: [out, ends,
\* result], the text written and either the outcome it ends with or the
\* arguments it calls run_direct with
run_argv_aliases(c, argv) == Parsed(c, parse_args(c, argv))

\* Command.exceptions as the subclass declares it: None, one class, a
\* tuple of classes or (as the docstring allows) a list of classes
NoExceptions == [form |-> "None", classes |-> {}]
ExceptionsDecls ==
    { NoExceptions,
      [form |-> "class", classes |-> {"ValueError"}],
      [form |-> "tuple", classes |-> {"ValueError", "RuntimeError"}],
      [form |-> "tuple", classes |-> {}],
      [form |-> "list", classes |-> {"ValueError"}] }

\* isinstance(value, self.exceptions): a list is no class or tuple of classes
IsInstanceOfDecl(e, decl) ==
    IF decl.form = "list"
    THEN Raise(Exc("TypeError", <<"isinstance() arg 2 must be a type, a tuple of types, or a union">>))
    ELSE Return(\E class \in decl.classes : IsInstance(e, class))

\* the except clause of run_direct
run_direct_except(e, decl) ==
    IF decl.form = "None" THEN Raise(e)
    ELSE IF IsInstanceOfDecl(e, decl).raised THEN IsInstanceOfDecl(e, decl)
    ELSE IF IsInstanceOfDecl(e, decl).val THEN Return(e) ELSE Raise(e)

HookPrepare == [hook |-> "prepare"]
HookRun(kw) == [hook |-> "run", kwargs |-> kw]
HookCleanup == [hook |-> "cleanup"]

\* a variant that calls run() whatever prepare() returned
run_direct_always_mutant(kw, decl, pre, run) ==
    IF pre.raised
    THEN [hooks |-> <<HookPrepare, HookCleanup>>,
          result |-> run_direct_except(pre.exc, decl)]
    ELSE IF run.raised
    THEN [hooks |-> <<HookPrepare, HookRun(kw), HookCleanup>>,
          result |-> run_direct_except(run.exc, decl)]
    ELSE [hooks |-> <<HookPrepare, HookRun(kw), HookCleanup>>, result |-> run]

\* a variant without the finally clause on the paths that skip run()
run_direct_mutant(kw, decl, pre, run) ==
    IF pre.raised
    THEN [hooks |-> <<HookPrepare>>, result |-> run_direct_except(pre.exc, decl)]
    ELSE IF Truthy(pre.val)
    THEN [hooks |-> <<HookPrepare>>, result |-> pre]
    ELSE IF run.raised
    THEN [hooks |-> <<HookPrepare, HookRun(kw), HookCleanup>>,
          result |-> run_direct_except(run.exc, decl)]
    ELSE [hooks |-> <<HookPrepare, HookRun(kw), HookCleanup>>, result |-> run]

\* Command.run_direct: prepare and run end as `pre` and `run` say;
\* [hooks, result]: the hooks invoked, in order, and the outcome
run_direct(kw, decl, pre, run) ==
    IF pre.raised
    THEN [hooks |-> <<HookPrepare, HookCleanup>>,
          result |-> run_direct_except(pre.exc, decl)]
    ELSE IF Truthy(pre.val)
    THEN [hooks |-> <<HookPrepare, HookCleanup>>, result |-> pre]
    ELSE IF run.raised
    THEN [hooks |-> <<HookPrepare, HookRun(kw), HookCleanup>>,
          result |-> run_direct_except(run.exc, decl)]
    ELSE [hooks |-> <<HookPrepare, HookRun(kw), HookCleanup>>, result |-> run]

\* CLI._output_help(topic), called by cmd_help.run through the parameter
\* "cmd:help_output": the text written, or the error of get_help_text
output_help(reg, topic) ==
    IF topic \in {"help", "commands", "hidden-commands"}
    THEN Return(Str(<<"help topic ", topic>>))
    ELSE IF has_command(reg, topic, TRUE)
    THEN get_help_text(get_command(reg, topic, TRUE).val.cls, TRUE)
    ELSE Return(Str(<<"tool", ": Unavailable help topic '", topic, "'">>))

\* cmd_help.run(topic=None, long=False)
HelpWritten(text) ==
    IF text.raised THEN [out |-> <<>>, result |-> text]
    ELSE [out |-> <<text.val>>, result |-> Return(None)]

cmd_help_run(reg, kw) ==
    HelpWritten(output_help(reg, IF "topic" \in DOMAIN kw THEN kw["topic"].s[1] ELSE "help"))

\* a variant without the except clause of CLI.run
cli_run_result_mutant(r) ==
    IF r.raised THEN r
    ELSE Return(IF Truthy(r.val) THEN r.val ELSE PyInt(0))

\* CLI.run, from the value or error of run_argv_aliases to its own outcome
cli_run_result(r) ==
    IF r.raised
    THEN IF IsInstance(r.exc, "CommandError")
         THEN Return(Str(<<"tool", ": ">> \o r.exc.msg))
         ELSE r
    ELSE Return(IF Truthy(r.val) THEN r.val ELSE PyInt(0))

\* CLI.run: cmd = argv and argv.pop(0) or "help"
CommandToken(argv) ==
    IF argv = <<>> THEN "help"
    ELSE IF Head(argv) # "" THEN Head(argv) ELSE "help"

(***************************************************************************)
(* Inputs                                                                  *)
(***************************************************************************)
\* the names asked of get_command
Names == {"help", "foo", "spam", "bar", "eggs", "baz", "-h", ""}

SeqsUpTo(S, n) == UNION {[1..k -> S] : k \in 0..n}

\* sequences of distinct classes
InitCommands ==
    {cs \in SeqsUpTo(UserClasses, MaxInitCommands) :
        \A i, j \in DOMAIN cs : i # j => cs[i] # cs[j]}

(***************************************************************************)
(* Spec: the registry                                                      *)
(***************************************************************************)
Idle(commands) ==
    /\ registry = CLI_init(commands)
    /\ heap = CLI_init_heap(commands).heap
    /\ cmd_param = CLI_init_heap(commands).cmd_param
    /\ instances = <<>>
    /\ files = {}
    /\ fileno = [l \in LockObjects |-> None]
    /\ pc = "idle"
    /\ op = "init"
    /\ req = <<>>
    /\ res = NoCall
    /\ cur = "none"
    /\ kwargs = <<>>
    /\ hooks = <<>>
    /\ out = <<>>
    /\ direct = NoCall

Init == \E cs \in InitCommands : Idle(cs)

NoDispatch == UNCHANGED <<cur, kwargs, hooks, out, direct>>
NoInstances == UNCHANGED <<heap, cmd_param, instances>>
NoLocks == UNCHANGED <<files, fileno>>

CLI_add_command(c) ==
    /\ pc = "idle"
    /\ registry' = add_command(registry, c)
    /\ pc' = "done"
    /\ op' = "add_command"
    /\ req' = [command |-> c]
    /\ res' = Return(None)
    /\ \E r \in {AddParams(heap, cmd_param, instances, <<c>>, AddParam)} :
          /\ heap' = r.heap
          /\ cmd_param' = r.cmd_param
          /\ instances' = r.instances
    /\ NoDispatch
    /\ NoLocks

CLI_get_command(n, alias) ==
    /\ pc = "idle"
    /\ pc' = "done"
    /\ op' = "get_command"
    /\ req' = [name |-> n, alias |-> alias]
    /\ res' = get_command(registry, n, alias)
    /\ IF res'.raised
       THEN UNCHANGED <<heap, instances>>
       ELSE \E r \in {NewInstance(heap, res'.val.cls, cmd_param[res'.val.cls])} :
                /\ heap' = r.heap
                /\ instances' = Append(instances, r.inst)
    /\ UNCHANGED <<registry, cmd_param>>
    /\ NoDispatch
    /\ NoLocks

\* the caller takes the outcome; the next call may start
Returned ==
    /\ pc = "done"
    /\ pc' = "idle"
    /\ op' = "init"
    /\ req' = <<>>
    /\ res' = NoCall
    /\ cur' = "none"
    /\ kwargs' = <<>>
    /\ hooks' = <<>>
    /\ out' = <<>>
    /\ direct' = NoCall
    /\ instances' = <<>>
    /\ heap' = Norm(heap, cmd_param, <<>>).heap
    /\ UNCHANGED <<registry, cmd_param>>
    /\ NoLocks

AddCommand == pc = "idle" /\ \E c \in Classes : CLI_add_command(c)

GetCommand ==
    pc = "idle" /\ \E n \in Names, alias \in BOOLEAN : CLI_get_command(n, alias)

\* CLI.has_command(n, alias)
HasCommand ==
    /\ pc = "idle"
    /\ \E n \in Names, alias \in BOOLEAN :
          /\ pc' = "done"
          /\ op' = "has_command"
          /\ req' = [name |-> n, alias |-> alias]
          /\ res' = Return(PyBool(has_command(registry, n, alias)))
    /\ UNCHANGED registry
    /\ NoDispatch
    /\ NoInstances
    /\ NoLocks

Next == AddCommand \/ GetCommand \/ HasCommand \/ Returned

Spec == Init /\ [][Next]_vars

(***************************************************************************)
(* SpecRun: CLI.run(argv), one call after another                          *)
(***************************************************************************)
Tokens ==
    {"foo", "spam", "eggs", "nope", "", "--", "--help", "-h", "--usage", "--bogus",
     "-p", "--protocol", "--protocol=bananas", "bananas", "tcp"}

Argvs == SeqsUpTo(Tokens, MaxArgv)

RunClasses == {"cmd_foo", "cmd_spam"}

\* what prepare() and run() of a user's command may do
RaisedKinds == {"ValueError", "KeyError", "CommandError"}
PrepareOutcomes ==
    {Return(None), Return(PyInt(0)), Return(Str(<<"not ready">>))}
        \cup {Raise(Exc(k, <<"prepare failed">>)) : k \in RaisedKinds}
RunOutcomes ==
    {Return(None), Return(PyInt(7))}
        \cup {Raise(Exc(k, <<"run failed">>)) : k \in RaisedKinds}

InitRun ==
    \E cs \in InitCommands :
        /\ \A i \in DOMAIN cs : cs[i] \in RunClasses
        /\ Idle(cs)

\* CLI.run up to the call of run_argv_aliases
CLI_run(argv) ==
    /\ pc = "idle"
    /\ op' = "run"
    /\ IF get_command(registry, CommandToken(argv), TRUE).raised
       THEN /\ pc' = "done"
            /\ res' = Return(Str(<<"tool", ": command '", CommandToken(argv),
                                   "' does not exist.">>))
            /\ cur' = "none"
       ELSE /\ pc' = "run_argv_aliases"
            /\ res' = NoCall
            /\ cur' = get_command(registry, CommandToken(argv), TRUE).val.cls
    /\ req' = [argv |-> argv, rest |-> IF argv = <<>> THEN <<>> ELSE Tail(argv)]
    /\ UNCHANGED <<registry, kwargs, hooks, out, direct>>
    /\ NoInstances
    /\ NoLocks

\* Command.run_argv_aliases up to the call of run_direct; when it ends
\* before, CLI.run ends with it
RunArgvAliasesDone(r) ==
    /\ out' = r.out
    /\ IF r.ends
       THEN /\ pc' = "done"
            /\ res' = cli_run_result(r.result)
            /\ kwargs' = <<>>
       ELSE /\ pc' = "run_direct"
            /\ res' = NoCall
            /\ kwargs' = r.result.val

\* a variant that calls cleanup() when the dispatch ends before run_direct
Command_run_argv_aliases_mutant ==
    /\ pc = "run_argv_aliases"
    /\ RunArgvAliasesDone(run_argv_aliases(cur, req.rest))
    /\ hooks' = IF run_argv_aliases(cur, req.rest).ends THEN <<HookCleanup>> ELSE hooks
    /\ UNCHANGED <<registry, op, req, cur, direct>>
    /\ NoInstances
    /\ NoLocks

Command_run_argv_aliases ==
    /\ pc = "run_argv_aliases"
    /\ RunArgvAliasesDone(run_argv_aliases(cur, req.rest))
    /\ UNCHANGED <<registry, op, req, cur, hooks, direct>>
    /\ NoInstances
    /\ NoLocks

\* Command.run_direct and the end of CLI.run
Command_run_direct(decl, pre, run) ==
    /\ pc = "run_direct"
    /\ hooks' = run_direct(kwargs, decl, pre, run).hooks
    /\ direct' = run_direct(kwargs, decl, pre, run).result
    /\ res' = cli_run_result(direct')
    /\ out' = IF cur = BuiltinHelp THEN cmd_help_run(registry, kwargs).out ELSE out
    /\ req' = [argv |-> req.argv, rest |-> req.rest,
               exceptions |-> decl, prepare |-> pre, run |-> run]
    /\ pc' = "done"
    /\ UNCHANGED <<registry, op, cur, kwargs>>
    /\ NoInstances
    /\ NoLocks

Run == pc = "idle" /\ \E argv \in Argvs : CLI_run(argv)

\* a user's command: exceptions, prepare and run are what its author wrote
RunDirect ==
    pc = "run_direct" /\ cur # BuiltinHelp /\
        \E decl \in ExceptionsDecls, pre \in PrepareOutcomes, run \in RunOutcomes :
            Command_run_direct(decl, pre, run)

\* the built-in help: no exceptions, the default prepare, cmd_help.run
RunDirectHelp ==
    /\ pc = "run_direct"
    /\ cur = BuiltinHelp
    /\ Command_run_direct(NoExceptions, Return(None), cmd_help_run(registry, kwargs).result)

NextRun == Run \/ Command_run_argv_aliases \/ RunDirect \/ RunDirectHelp \/ Returned

SpecRun == InitRun /\ [][NextRun]_vars

(***************************************************************************)
(* SpecOpt: CLI.run of the command cmd_fetch, which declares a value       *)
(* option, two boolean options and a list option                           *)
(***************************************************************************)
\* most tokens after the command token
MaxOpts == 3

OptTokens ==
    {"--protocol=tcp", "--protocol=udp", "--protocol", "-p", "tcp", "udp",
     "--layer=tcp", "--layer=udp", "--layer=-", "--layer", "-l", "-",
     "--verbose", "--no-verbose", "-v", "--no-color", "--color"}

OptArgvs == {<<"fetch">> \o rest : rest \in SeqsUpTo(OptTokens, MaxOpts)}

InitOpt == Idle(<<"cmd_fetch">>)

RunOpt == pc = "idle" /\ \E argv \in OptArgvs : CLI_run(argv)

\* cmd_fetch: no exceptions, the default prepare, run returns 0
RunDirectFetch ==
    /\ pc = "run_direct"
    /\ Command_run_direct(NoExceptions, Return(None), Return(PyInt(0)))

NextOpt == RunOpt \/ Command_run_argv_aliases \/ RunDirectFetch \/ Returned

SpecOpt == InitOpt /\ [][NextOpt]_vars

(***************************************************************************)
(* SpecBind: _match_argform applied to a grammar and positional tokens     *)
(***************************************************************************)
\* most specs of a grammar, most positional tokens
MaxSpecs == 3
MaxArgs == 3

ArgSpecs == {"a", "dst", "topic?", "pathspec*", "file+", "src$"}

\* takes_args: argument specs of distinct names
Grammars ==
    {g \in SeqsUpTo(ArgSpecs, MaxSpecs) : \A i, j \in DOMAIN g : i # j => g[i] # g[j]}

BindTokens == {"x", "y", "z"}
BindArgs == SeqsUpTo(BindTokens, MaxArgs)

InitBind == Idle(<<>>)

\* cmdargs = _match_argform(self.name(), self.takes_args, args)
Call_match_argform(specs, args) ==
    /\ pc = "idle"
    /\ pc' = "done"
    /\ op' = "match_argform"
    /\ req' = [cmd |-> "bar", takes_args |-> specs, args |-> args]
    /\ res' = match_argform("bar", specs, args)
    /\ UNCHANGED registry
    /\ NoDispatch
    /\ NoInstances
    /\ NoLocks

MatchArgform ==
    pc = "idle" /\ \E specs \in Grammars, args \in BindArgs : Call_match_argform(specs, args)

NextBind == MatchArgform \/ Returned

SpecBind == InitBind /\ [][NextBind]_vars

(***************************************************************************)
(* SpecArgs: _match_argform applied to any sequence of argument specs, a   *)
(* spec that occurs twice included (takes_args is not validated)           *)
(***************************************************************************)
AnyGrammars == SeqsUpTo(ArgSpecs, MaxSpecs)

MatchAnyArgform ==
    pc = "idle" /\ \E specs \in AnyGrammars, args \in BindArgs : Call_match_argform(specs, args)

NextArgs == MatchAnyArgform \/ Returned

SpecArgs == InitBind /\ [][NextArgs]_vars

(***************************************************************************)
(* SpecProbe: parse_args and get_help_text applied to cmd_probe, whose     *)
(* options are hidden and have a post-process hook, and to cmd_fetch       *)
(***************************************************************************)
\* most tokens of a command line
MaxProbe == 3

\* tokens that hold one option occurrence each, but "-nn", which holds two
ProbeTokens ==
    {"--dry-run", "--no-dry-run", "-n", "-nn", "--api-key=s", "-ks",
     "--tag-name=a", "--tag-name=-", "-tb", "--verbose"}

ProbeClasses == {"cmd_probe", "cmd_fetch"}

\* a call of one of the two functions: the call record
Probed(fn, call, r) ==
    /\ pc' = "done"
    /\ op' = fn
    /\ req' = call
    /\ res' = r
    /\ UNCHANGED registry
    /\ NoDispatch
    /\ NoInstances
    /\ NoLocks

\* args, opts = parse_args(cmd_probe(), argv)
ParseArgs ==
    /\ pc = "idle"
    /\ \E argv \in SeqsUpTo(ProbeTokens, MaxProbe) :
          Probed("parse_args", [cmd |-> "cmd_probe", argv |-> argv],
                 parse_args("cmd_probe", argv))

\* c().get_help_text(verbose=verbose)
GetHelpText ==
    /\ pc = "idle"
    /\ \E c \in ProbeClasses, verbose \in BOOLEAN :
          Probed("get_help_text", [cmd |-> c, verbose |-> verbose],
                 get_help_text(c, verbose))

NextProbe == ParseArgs \/ GetHelpText \/ Returned

SpecProbe == InitBind /\ [][NextProbe]_vars

(***************************************************************************)
(* SpecInst: a caller that keeps the instances get_command returns and     *)
(* mutates them: items of an instance's param set and deleted, param       *)
(* rebound to a new dict, names appended to supported_std_options          *)
(***************************************************************************)
\* most instances the caller keeps
MaxInstances == 2
\* longest supported_std_options the caller makes
MaxStdOptions == 1

InstNames == {"foo", "spam", "eggs", "nope"}
ParamKeys == {"x"}

InitInst == Idle(<<"cmd_foo", "cmd_spam">>)

\* the caller's statement on its i-th instance: the call record
Statement(stmt, i, k) ==
    /\ pc' = "done"
    /\ op' = stmt
    /\ req' = [inst |-> i, key |-> k]
    /\ UNCHANGED <<registry, cmd_param>>
    /\ NoDispatch
    /\ NoLocks

\* instances[i].param[k] = "other"
ParamSet ==
    /\ pc = "idle"
    /\ \E i \in DOMAIN instances, k \in ParamKeys :
          /\ Statement("param_set", i, k)
          /\ res' = Return(None)
          /\ heap' = [heap EXCEPT ![instances[i].param] =
                        [j \in DOMAIN @ \cup {k} |-> IF j = k THEN "other" ELSE @[j]]]
          /\ UNCHANGED instances

\* del instances[i].param[k]
ParamDel ==
    /\ pc = "idle"
    /\ \E i \in DOMAIN instances, k \in ParamKeys :
          /\ Statement("param_del", i, k)
          /\ IF k \in DOMAIN heap[instances[i].param]
             THEN /\ res' = Return(None)
                  /\ heap' = [heap EXCEPT ![instances[i].param] =
                                [j \in DOMAIN @ \ {k} |-> @[j]]]
             ELSE /\ res' = Raise(Exc("KeyError", <<k>>))
                  /\ UNCHANGED heap
          /\ UNCHANGED instances

\* instances[i].param = {}
ParamRebind ==
    /\ pc = "idle"
    /\ \E i \in DOMAIN instances :
          /\ Statement("param_rebind", i, "")
          /\ res' = Return(None)
          /\ \E r \in {Norm(Put(heap, Alloc(heap), <<>>), cmd_param,
                             [instances EXCEPT ![i].param = Alloc(heap)])} :
                /\ heap' = r.heap
                /\ instances' = r.instances

\* instances[i].supported_std_options.append("help"), as Command.options
\* does for a declared option that has a standard option's name
StdAppend ==
    /\ pc = "idle"
    /\ \E i \in DOMAIN instances :
          /\ Len(heap[instances[i].supported_std_options]) < MaxStdOptions
          /\ Statement("std_append", i, "")
          /\ res' = Return(None)
          /\ heap' = [heap EXCEPT ![instances[i].supported_std_options] =
                        Append(@, "help")]
          /\ UNCHANGED instances

\* the caller keeps what the call returned; the next call may start
Kept ==
    /\ pc = "done"
    /\ pc' = "idle"
    /\ op' = "init"
    /\ req' = <<>>
    /\ res' = NoCall
    /\ UNCHANGED registry
    /\ NoDispatch
    /\ NoInstances
    /\ NoLocks

InstGet ==
    pc = "idle" /\ Len(instances) < MaxInstances /\
        \E n \in InstNames : CLI_get_command(n, TRUE)

NextInst == InstGet \/ ParamSet \/ ParamDel \/ ParamRebind \/ StdAppend \/ Kept

SpecInst == InitInst /\ [][NextInst]_vars

(***************************************************************************)
(* SpecLock: Lock objects of one process locking and unlocking, and other  *)
(* processes creating and removing the same lock files                     *)
(***************************************************************************)
InitLock == Idle(<<>>)

\* a call of a Lock method: the call record and its effect
LockCalled(method, l, tryonly, r) ==
    /\ pc' = "done"
    /\ op' = method
    /\ req' = [lock |-> l, tryonly |-> tryonly]
    /\ res' = r.result
    /\ fileno' = r.fileno
    /\ files' = r.files
    /\ UNCHANGED registry
    /\ NoDispatch
    /\ NoInstances

\* Lock.lock(tryonly)
Lock_lock ==
    /\ pc = "idle"
    /\ \E l \in LockObjects, tryonly, py3 \in BOOLEAN, fd \in Descriptors :
          LockCalled("lock", l, tryonly, lock(fileno, files, l, tryonly, fd, py3))

\* Lock.try_lock: return self.lock(tryonly=True)
Lock_try_lock ==
    /\ pc = "idle"
    /\ \E l \in LockObjects, py3 \in BOOLEAN, fd \in Descriptors :
          LockCalled("try_lock", l, TRUE, lock(fileno, files, l, TRUE, fd, py3))

\* Lock.unlock
Lock_unlock ==
    /\ pc = "idle"
    /\ \E l \in LockObjects :
          LockCalled("unlock", l, FALSE, unlock(fileno, files, l))

\* another process takes or releases a lock
OtherProcess ==
    /\ pc = "idle"
    /\ \E l \in LockObjects :
          files' = IF Path(l) \in files THEN files \ {Path(l)} ELSE files \cup {Path(l)}
    /\ UNCHANGED <<registry, pc, op, req, res, fileno>>
    /\ NoDispatch
    /\ NoInstances

NextLock == Lock_lock \/ Lock_try_lock \/ Lock_unlock \/ OtherProcess \/ Returned

SpecLock == InitLock /\ [][NextLock]_vars

(***************************************************************************)
(* SpecBag: the CLI and a second CLI instance in the same process, named   *)
(* "other", which registers classes too.  The registry of the second CLI   *)
(* is its own; the classes, and their __cmd_param__, are the same.         *)
(***************************************************************************)
\* the keyword arguments the second CLI hands to scan_commands: at its
\* construction, and in an add_command call later
OtherParam(constructing) ==
    [k \in IF constructing THEN {"cmd:help_output", "cmd:tool_name"}
           ELSE {"cmd:help_output"} |->
        IF k = "cmd:tool_name" THEN "other" ELSE "other._output_help"]

\* CLI("other", commands=commands): the given commands, then the built-in help
OtherInit ==
    /\ pc = "idle"
    /\ \E commands \in {cs \in InitCommands : \A i \in DOMAIN cs : cs[i] \in RunClasses} :
          /\ req' = [commands |-> commands]
          /\ \E r \in {AddParams(heap, cmd_param, instances, commands, OtherParam(TRUE))} :
                \E q \in {AddParams(r.heap, r.cmd_param, r.instances, <<BuiltinHelp>>,
                                    OtherParam(TRUE))} :
                    /\ heap' = q.heap
                    /\ cmd_param' = q.cmd_param
                    /\ instances' = q.instances
    /\ pc' = "done"
    /\ op' = "other_init"
    /\ res' = Return(None)
    /\ UNCHANGED registry
    /\ NoDispatch
    /\ NoLocks

\* add_command(c) of the second CLI
OtherAddCommand ==
    /\ pc = "idle"
    /\ \E c \in RunClasses :
          /\ req' = [command |-> c]
          /\ \E r \in {AddParams(heap, cmd_param, instances, <<c>>, OtherParam(FALSE))} :
                /\ heap' = r.heap
                /\ cmd_param' = r.cmd_param
                /\ instances' = r.instances
    /\ pc' = "done"
    /\ op' = "other_add_command"
    /\ res' = Return(None)
    /\ UNCHANGED registry
    /\ NoDispatch
    /\ NoLocks

BagAdd == pc = "idle" /\ \E c \in RunClasses : CLI_add_command(c)

BagGet == pc = "idle" /\ \E n \in {"foo", "spam", "help"} : CLI_get_command(n, TRUE)

NextBag == BagAdd \/ BagGet \/ OtherInit \/ OtherAddCommand \/ Returned

SpecBag == InitRun /\ [][NextBag]_vars

(***************************************************************************)
(* What the claims speak of                                                *)
(***************************************************************************)
Registered(reg) == {reg[i].cls : i \in DOMAIN reg}

\* a get_command call has returned or raised
GotCommand == pc = "done" /\ op = "get_command"

\* an add_command call has returned
AddedCommand == pc = "done" /\ op = "add_command"

\* a CLI.run call has ended
RunEnded == pc = "done" /\ op = "run"

\* ... and went through Command.run_direct
Dispatched == RunEnded /\ direct # NoCall

HookNames == [i \in DOMAIN hooks |-> hooks[i].hook]
Count(h) == Cardinality({i \in DOMAIN hooks : hooks[i].hook = h})

\* prepare() or run() raised, and the error it raised
BodyRaised ==
    \/ req.prepare.raised
    \/ ~Truthy(req.prepare.val) /\ req.run.raised
BodyError == IF req.prepare.raised THEN req.prepare.exc ELSE req.run.exc

\* the kind of the error is listed in Command.exceptions
Listed(e, decl) == \E class \in decl.classes : IsInstance(e, class)

\* str(v) of a result
MessageOf(v) ==
    CASE v.t = "exc" -> v.msg
      [] v.t = "str" -> v.s
      [] OTHER -> <<"?">>

IsMessage(r) == ~r.raised /\ r.val.t = "str" /\ r.val.s # <<>>

(***************************************************************************)
(* C1  get_command(name, alias=False) returns an instance iff name is a    *)
(* registered canonical name; with alias=True it returns one iff name is a *)
(* registered name or an alias of a registered command; the instance is of *)
(* the command registered under the name, else of a command that owns the  *)
(* alias; in every other case it raises KeyError.                          *)
(***************************************************************************)
C1_get_command ==
    GotCommand =>
        LET n == req.name
            exact == \E i \in DOMAIN registry : registry[i].name = n
            owned == \E c \in Registered(registry) : n \in aliases(c)
        IN  /\ ~res.raised <=> (exact \/ (req.alias /\ owned))
            /\ ~res.raised /\ exact =>
                  \E i \in DOMAIN registry :
                      registry[i].name = n /\ res.val = Instance(registry[i].cls)
            /\ ~res.raised /\ ~exact =>
                  /\ res.val.t = "instance"
                  /\ res.val.cls \in Registered(registry)
                  /\ n \in aliases(res.val.cls)
            /\ res.raised => res.exc.kind = "KeyError"

\* "eggs" resolved through the alias of cmd_spam, and refused without it
C1_witness ==
    /\ GotCommand
    /\ req = [name |-> "eggs", alias |-> TRUE]
    /\ res = Return(Instance("cmd_spam"))
    /\ get_command(registry, "eggs", FALSE).raised

(***************************************************************************)
(* C2  add_command(C) affects only C's own name and aliases: for every     *)
(* other name and both values of the alias flag, get_command has the same  *)
(* outcome after the call as before it.                                    *)
(***************************************************************************)
SameLookups(before, after, ns) ==
    \A n \in ns, alias \in BOOLEAN :
        get_command(after, n, alias) = get_command(before, n, alias)

\* the aliases of the class that add_command(c) replaces, if there is one
ReplacedAliases(reg, c) ==
    UNION {aliases(reg[i].cls) : i \in {j \in DOMAIN reg : reg[j].name = name(c)}}

\* the claim as stated
C2_add_command_frame ==
    [][(pc = "idle" /\ op' = "add_command") =>
          SameLookups(registry, registry',
                      Names \ ({name(req'.command)} \cup aliases(req'.command)))]_vars

\* as amended: the aliases of a command that C replaces under its name
\* are affected too
C2_add_command_frame_amended ==
    [][(pc = "idle" /\ op' = "add_command") =>
          SameLookups(registry, registry',
                      Names \ ({name(req'.command)} \cup aliases(req'.command)
                                  \cup ReplacedAliases(registry, req'.command)))]_vars

\* cmd_spam (alias eggs) added to a registry that has foo; "baz" still fails
C2_witness ==
    /\ AddedCommand
    /\ req.command = "cmd_spam"
    /\ "foo" \in Keys(registry)
    /\ get_command(registry, "eggs", TRUE) = Return(Instance("cmd_spam"))
    /\ get_command(registry, "baz", TRUE).raised
    /\ get_command(registry, "baz", FALSE).raised

(***************************************************************************)
(* C3  In run_direct, cleanup() is invoked exactly once per dispatch, and  *)
(* after prepare() and run() have finished, whether prepare() returns a    *)
(* truthy value, run() returns, or either raises a recoverable or a        *)
(* non-recoverable error.                                                  *)
(***************************************************************************)
C3_cleanup_once ==
    Dispatched =>
        /\ Count("cleanup") = 1
        /\ hooks[Len(hooks)] = HookCleanup
        /\ Count("prepare") = 1

\* run() raised an error that is not recoverable; cleanup ran after it
C3_witness ==
    /\ Dispatched
    /\ ~req.prepare.raised /\ req.run.raised
    /\ direct = Raise(req.run.exc)
    /\ HookNames = <<"prepare", "run", "cleanup">>

(***************************************************************************)
(* C4  prepare() is invoked before run(); if it returns a truthy value,    *)
(* run() is never invoked and the dispatch result is that value; if it     *)
(* returns a falsy value, run() is invoked exactly once with the merged    *)
(* parameters and its return value is the dispatch result.                 *)
(***************************************************************************)
C4_prepare_then_run ==
    Dispatched =>
        /\ hooks[1] = HookPrepare
        /\ ~req.prepare.raised /\ Truthy(req.prepare.val) =>
              /\ Count("run") = 0
              /\ direct = Return(req.prepare.val)
        /\ ~req.prepare.raised /\ ~Truthy(req.prepare.val) =>
              /\ Count("run") = 1
              /\ hooks[2] = HookRun(kwargs)
              /\ ~req.run.raised => direct = req.run

\* prepare() returned 0, run() got the bound option and returned 7
C4_witness ==
    /\ Dispatched
    /\ req.prepare = Return(PyInt(0))
    /\ req.run = Return(PyInt(7))
    /\ direct = Return(PyInt(7))
    /\ "protocol" \in DOMAIN kwargs
    /\ hooks = <<HookPrepare, HookRun(kwargs), HookCleanup>>

(***************************************************************************)
(* C5  If prepare() or run() raises an error whose kind is listed in the   *)
(* command's recoverable error kinds (Command.exceptions), the dispatch    *)
(* does not propagate it and returns that error's message as its result.   *)
(***************************************************************************)
C5_recoverable_returned ==
    (Dispatched /\ BodyRaised /\ Listed(BodyError, req.exceptions)) =>
        /\ ~direct.raised
        /\ MessageOf(direct.val) = BodyError.msg

(***************************************************************************)
(* C6  Every error raised by prepare() or run() whose kind is not in the   *)
(* command's recoverable set propagates unmodified out of CLI.run;         *)
(* CLI.run never converts such an error into a returned message, whatever  *)
(* its kind, CommandError included.                                        *)
(***************************************************************************)
\* the claim as stated
C6_others_propagate ==
    (Dispatched /\ BodyRaised /\ ~Listed(BodyError, req.exceptions)) =>
        res = Raise(BodyError)

\* as amended: a CommandError is returned as the message "<tool>: <text>";
\* and when Command.exceptions is a list, the TypeError of the isinstance
\* test propagates in the place of the error
C6_others_propagate_amended ==
    (Dispatched /\ BodyRaised /\ ~Listed(BodyError, req.exceptions)) =>
        IF req.exceptions.form = "list"
        THEN res.raised /\ res.exc.kind = "TypeError"
        ELSE IF IsInstance(BodyError, "CommandError")
        THEN res = Return(Str(<<"tool", ": ">> \o BodyError.msg))
        ELSE res = Raise(BodyError)

\* run() raised a CommandError its command does not list: CLI.run returned
\* the message
C6_witness ==
    /\ Dispatched
    /\ req.exceptions = [form |-> "class", classes |-> {"ValueError"}]
    /\ req.run = Raise(Exc("CommandError", <<"run failed">>))
    /\ BodyRaised
    /\ res = Return(Str(<<"tool", ": ", "run failed">>))

(***************************************************************************)
(* C7  When --help / -h or --usage is set and option parsing succeeds, the *)
(* dispatch emits the help text, returns 0 and invokes neither prepare()   *)
(* nor run(), whatever the positional tokens are.                          *)
(***************************************************************************)
OptSet(opts, k) == k \in DOMAIN opts /\ opts[k] = PyBool(TRUE)

HelpAsked ==
    /\ RunEnded
    /\ cur # "none"
    /\ ~parse_args(cur, req.rest).raised
    /\ \/ OptSet(parse_args(cur, req.rest).val.opts, "help")
       \/ OptSet(parse_args(cur, req.rest).val.opts, "usage")

\* the claim as stated
C7_help_short_circuit ==
    HelpAsked => /\ out # <<>>
                 /\ res = Return(PyInt(0))
                 /\ hooks = <<>>

\* as amended: of a command that has a docstring; a command without one
\* raises NotImplementedError and emits nothing, and still no hook runs
C7_help_short_circuit_amended ==
    HelpAsked =>
        /\ hooks = <<>>
        /\ IF HasDoc(cur)
           THEN /\ Len(out) = 1
                /\ res = Return(PyInt(0))
           ELSE /\ out = <<>>
                /\ res.raised /\ res.exc.kind = "NotImplementedError"

\* "spam --help": the required argument is missing and help is shown
C7_witness ==
    /\ HelpAsked
    /\ cur = "cmd_spam"
    /\ parse_args(cur, req.rest).val.args = <<>>
    /\ match_argform(name(cur), takes_args(cur), <<>>).raised
    /\ out = <<get_help_text(cur, TRUE).val>>
    /\ SubSeq(out[1].s, 1, 2) = <<"help text of ", "spam">>
    /\ res = Return(PyInt(0))

(***************************************************************************)
(* C8  CLI.run(argv) with a first token that is neither a registered       *)
(* command name nor an alias of a registered command returns a message     *)
(* string; it never raises and never invokes any hook of any command.      *)
(***************************************************************************)
UnknownName(reg, n) ==
    /\ n \notin Keys(reg)
    /\ \A c \in Registered(reg) : n \notin aliases(c)

C8_unknown_command ==
    (RunEnded /\ req.argv # <<>> /\ UnknownName(registry, Head(req.argv))) =>
        /\ IsMessage(res)
        /\ hooks = <<>>
        /\ cur = "none"

(***************************************************************************)
(* C9  When the command line of a known command contains an unrecognized   *)
(* option switch, or its positional tokens violate the argument grammar,   *)
(* CLI.run returns a message string instead of raising, and neither        *)
(* prepare() nor run() is invoked.                                         *)
(***************************************************************************)
\* the parser met a switch it does not know
UnknownSwitch ==
    /\ parse_args(cur, req.rest).raised
    /\ parse_args(cur, req.rest).exc.kind = "CommandError"
    /\ Head(parse_args(cur, req.rest).exc.msg) \in {"no such option: --", "no such option: -"}

\* the positional tokens the parser left do not fit takes_args
GrammarViolated ==
    /\ ~parse_args(cur, req.rest).raised
    /\ match_argform(name(cur), takes_args(cur), parse_args(cur, req.rest).val.args).raised

NoHelpAsked ==
    /\ "help" \notin DOMAIN parse_args(cur, req.rest).val.opts
    /\ "usage" \notin DOMAIN parse_args(cur, req.rest).val.opts

\* the claim as stated
C9_parse_errors_returned ==
    (RunEnded /\ cur # "none" /\ (UnknownSwitch \/ GrammarViolated)) =>
        /\ IsMessage(res)
        /\ hooks = <<>>

\* as amended: the grammar is checked only when neither help nor usage is
\* given
C9_parse_errors_returned_amended ==
    (RunEnded /\ cur # "none" /\ (UnknownSwitch \/ (GrammarViolated /\ NoHelpAsked))) =>
        /\ IsMessage(res)
        /\ hooks = <<>>

\* "spam" without its required argument
C9_witness ==
    /\ RunEnded
    /\ cur = "cmd_spam"
    /\ req.rest = <<>>
    /\ GrammarViolated
    /\ res = Return(Str(<<"tool", ": ", "command ", "spam", " requires argument ", "A">>))
    /\ hooks = <<>>

(***************************************************************************)
(* C10  For a value option whose converter is an enumerated type, a value  *)
(* that is not a member makes CLI.run return a message containing          *)
(* "invalid choice", in each of the forms --opt=X, --opt X and -o X.       *)
(***************************************************************************)
InvalidChoice(v) ==
    v.t = "str" /\ \E i \in DOMAIN v.s : v.s[i] \in {"invalid choice", ": invalid choice: "}

C10_invalid_choice ==
    (RunEnded /\ cur = "cmd_foo"
        /\ req.rest \in {<<"--protocol=bananas">>, <<"--protocol", "bananas">>,
                         <<"-p", "bananas">>}) =>
        /\ ~res.raised
        /\ InvalidChoice(res.val)

(***************************************************************************)
(* C11  For a value option with a short alias and every valid value X, the *)
(* forms --opt=X, --opt X and -o X bind the identical converted value to   *)
(* the same run() parameter; when the option is not given the parameter is *)
(* not passed to run().                                                    *)
(***************************************************************************)
\* the values of the enumerated type the command lines use, and the
\* member each of them names
ProtocolValues == {"tcp", "udp"}
ProtocolMember(X) == Member("Protocol", CASE X = "tcp" -> "TCP" [] X = "udp" -> "UDP")

ProtocolEq(X) == CASE X = "tcp" -> "--protocol=tcp" [] X = "udp" -> "--protocol=udp"
ProtocolForms(X) == {<<ProtocolEq(X)>>, <<"--protocol", X>>, <<"-p", X>>}
ProtocolSwitches == {"--protocol", "-p", "--protocol=tcp", "--protocol=udp"}

NoneOf(switches, rest) == \A i \in DOMAIN rest : rest[i] \notin switches

\* the command line reaches run(), and the parameters run() is called with
CallsRun(c, rest) == ~run_argv_aliases(c, rest).ends
RunKwargs(c, rest) == run_argv_aliases(c, rest).result.val

\* rest is pre \o f \o post, f starting after the i-th token
SplitAt(rest, i, f) ==
    /\ i + Len(f) <= Len(rest)
    /\ SubSeq(rest, i + 1, i + Len(f)) = f
Before(rest, i) == SubSeq(rest, 1, i)
After(rest, i, f) == SubSeq(rest, i + Len(f) + 1, Len(rest))

C11_three_forms ==
    (RunEnded /\ cur = "cmd_fetch") =>
        /\ \A X \in ProtocolValues : \A f \in ProtocolForms(X), i \in 0..Len(req.rest) :
              ( /\ SplitAt(req.rest, i, f)
                /\ NoneOf(ProtocolSwitches, Before(req.rest, i) \o After(req.rest, i, f))
                /\ CallsRun(cur, Before(req.rest, i))
                /\ CallsRun(cur, Before(req.rest, i) \o After(req.rest, i, f)) )
              => /\ Dispatched
                 /\ hooks[2] = HookRun(kwargs)
                 /\ kwargs = ("protocol" :> ProtocolMember(X))
                                @@ RunKwargs(cur, Before(req.rest, i) \o After(req.rest, i, f))
                 /\ \A g \in ProtocolForms(X) :
                       RunKwargs(cur, Before(req.rest, i) \o g \o After(req.rest, i, f)) = kwargs
        /\ (Dispatched /\ NoneOf(ProtocolSwitches, req.rest)) =>
              "protocol" \notin DOMAIN kwargs

\* "-p udp" after another option
C11_witness ==
    /\ RunEnded
    /\ req.rest = <<"--verbose", "-p", "udp">>
    /\ kwargs = [protocol |-> Member("Protocol", "UDP"), verbose |-> PyBool(TRUE),
                 layer |-> PyList(<<>>)]
    /\ hooks = <<HookPrepare, HookRun(kwargs), HookCleanup>>
    /\ RunKwargs(cur, <<"--verbose">>) = [verbose |-> PyBool(TRUE), layer |-> PyList(<<>>)]

(***************************************************************************)
(* C12  For a list option, the bound value is the ordered sequence of the  *)
(* converted values of exactly the occurrences after the last occurrence   *)
(* of the value "-" (all occurrences when there is none); when the option  *)
(* never occurs the parameter is bound to the empty sequence.              *)
(***************************************************************************)
\* the values of the occurrences of --layer / -l on a command line that
\* reaches run(), in order: a switch that takes a value takes the next token
RECURSIVE LayerValues(_)
LayerValues(rest) ==
    IF rest = <<>> THEN <<>>
    ELSE CASE Head(rest) = "--layer=tcp" -> <<"tcp">> \o LayerValues(Tail(rest))
           [] Head(rest) = "--layer=udp" -> <<"udp">> \o LayerValues(Tail(rest))
           [] Head(rest) = "--layer=-" -> <<"-">> \o LayerValues(Tail(rest))
           [] Head(rest) \in {"--layer", "-l"} ->
                <<rest[2]>> \o LayerValues(Tail(Tail(rest)))
           [] Head(rest) \in {"--protocol", "-p"} -> LayerValues(Tail(Tail(rest)))
           [] OTHER -> LayerValues(Tail(rest))

\* what follows the last "-"
AfterLastReset(vals) ==
    LET resets == {i \in DOMAIN vals : vals[i] = "-"}
        last == IF resets = {} THEN 0 ELSE CHOOSE i \in resets : \A j \in resets : j <= i
    IN  SubSeq(vals, last + 1, Len(vals))

ExpectedLayers(rest) ==
    [i \in DOMAIN AfterLastReset(LayerValues(rest)) |->
        ProtocolMember(AfterLastReset(LayerValues(rest))[i])]

C12_list_option ==
    (Dispatched /\ cur = "cmd_fetch") =>
        /\ hooks[2] = HookRun(kwargs)
        /\ "layer" \in DOMAIN kwargs
        /\ kwargs["layer"] = PyList(ExpectedLayers(req.rest))

\* a value, the reset, a value: the last value alone is bound
C12_witness ==
    /\ Dispatched
    /\ req.rest = <<"--layer=tcp", "--layer=-", "--layer=udp">>
    /\ hooks[2] = HookRun(kwargs)
    /\ kwargs = [layer |-> PyList(<<Member("Protocol", "UDP")>>)]

(***************************************************************************)
(* C13  For a boolean option, --name binds its parameter to true, the      *)
(* negation switch (--no-name, or the name without its leading "no-")      *)
(* binds it to false, the last occurrence determines the value, and when   *)
(* neither switch occurs the parameter is absent from what run() is passed.*)
(***************************************************************************)
\* the truth values the occurrences of the switches `on` and `off` stand
\* for, in order, on a command line that reaches run()
RECURSIVE SwitchValues(_, _, _)
SwitchValues(rest, on, off) ==
    IF rest = <<>> THEN <<>>
    ELSE CASE Head(rest) \in on -> <<TRUE>> \o SwitchValues(Tail(rest), on, off)
           [] Head(rest) \in off -> <<FALSE>> \o SwitchValues(Tail(rest), on, off)
           [] Head(rest) \in {"--layer", "-l", "--protocol", "-p"} ->
                SwitchValues(Tail(Tail(rest)), on, off)
           [] OTHER -> SwitchValues(Tail(rest), on, off)

\* the parameter is absent, or holds what the last occurrence says
BoundByLast(kw, param, occurrences) ==
    IF occurrences = <<>> THEN param \notin DOMAIN kw
    ELSE param \in DOMAIN kw /\ kw[param] = PyBool(occurrences[Len(occurrences)])

BooleanSwitches == {"--verbose", "-v", "--no-verbose", "--no-color", "--color"}

C13_boolean_option ==
    /\ (Dispatched /\ cur = "cmd_fetch") =>
          /\ hooks[2] = HookRun(kwargs)
          /\ BoundByLast(kwargs, "verbose",
                         SwitchValues(req.rest, {"--verbose", "-v"}, {"--no-verbose"}))
          /\ BoundByLast(kwargs, "no_color",
                         SwitchValues(req.rest, {"--no-color"}, {"--color"}))
    /\ (RunEnded /\ cur = "cmd_fetch"
           /\ \A i \in DOMAIN req.rest : req.rest[i] \in BooleanSwitches) => Dispatched

\* --no-color binds true, a later --color binds false; verbose is absent
C13_witness ==
    /\ Dispatched
    /\ req.rest = <<"--no-color", "--color">>
    /\ hooks[2] = HookRun(kwargs)
    /\ kwargs = [no_color |-> PyBool(FALSE), layer |-> PyList(<<>>)]
    /\ RunKwargs(cur, <<"--no-color">>) = [no_color |-> PyBool(TRUE), layer |-> PyList(<<>>)]

(***************************************************************************)
(* The grammar as the claims read it: the suffix marker of a spec, the key *)
(* it binds and the name a failure mentions                                *)
(***************************************************************************)
Marker(ap) ==
    CASE ap = "topic?" -> "?"
      [] ap = "pathspec*" -> "*"
      [] ap = "file+" -> "+"
      [] ap = "src$" -> "$"
      [] ap \in {"a", "dst"} -> "plain"

BoundKey(ap) ==
    CASE ap = "topic?" -> "topic"
      [] ap = "pathspec*" -> "pathspec_list"
      [] ap = "file+" -> "file_list"
      [] ap = "src$" -> "src_list"
      [] ap \in {"a", "dst"} -> ap

Mentioned(ap) ==
    CASE ap = "topic?" -> "TOPIC"
      [] ap = "pathspec*" -> "PATHSPEC"
      [] ap = "file+" -> "FILE"
      [] ap = "src$" -> "SRC"
      [] ap = "a" -> "A"
      [] ap = "dst" -> "DST"

\* _match_argform has returned or raised, on a grammar whose first spec
\* has the marker m
BindEnded == pc = "done" /\ op = "match_argform"
FirstSpecIs(m) == BindEnded /\ req.takes_args # <<>> /\ Marker(Head(req.takes_args)) = m

\* the binding of the specs after the first one, given the tokens left
Following(left) == match_argform(req.cmd, Tail(req.takes_args), left)

\* the first spec binds value, and the following specs do the rest
BindsThen(value, following) ==
    IF following.raised THEN res = following
    ELSE res = Return((BoundKey(Head(req.takes_args)) :> value) @@ following.val)

\* the binding raised a CommandError that names the command and `word`
FailsNaming(word) ==
    /\ res.raised
    /\ res.exc.kind = "CommandError"
    /\ \E i, j \in DOMAIN res.exc.msg : res.exc.msg[i] = req.cmd /\ res.exc.msg[j] = word

(***************************************************************************)
(* C14  A "$" spec fails descriptively when fewer than 2 tokens remain;    *)
(* with n >= 2 tokens it binds the first n-1, in order, under <name>_list  *)
(* and leaves exactly the last token for the following spec.               *)
(***************************************************************************)
C14_all_but_one ==
    FirstSpecIs("$") =>
        IF Len(req.args) < 2
        THEN FailsNaming(Mentioned(Head(req.takes_args)))
        ELSE BindsThen(PyList(SubSeq(req.args, 1, Len(req.args) - 1)),
                       Following(<<req.args[Len(req.args)]>>))

\* [x, y, z] against src$ dst
C14_witness ==
    /\ BindEnded
    /\ req.takes_args = <<"src$", "dst">>
    /\ req.args = <<"x", "y", "z">>
    /\ res = Return([src_list |-> PyList(<<"x", "y">>), dst |-> Str(<<"z">>)])

(***************************************************************************)
(* C15  A "+" spec fails descriptively when no token remains; otherwise it *)
(* binds all remaining tokens under <name>_list in their input order and   *)
(* leaves none.  A "*" spec does the same, except that with no token it    *)
(* binds an empty sequence.                                                *)
(***************************************************************************)
C15_rest_of_tokens ==
    /\ FirstSpecIs("+") =>
          IF req.args = <<>>
          THEN FailsNaming(Mentioned(Head(req.takes_args)))
          ELSE BindsThen(PyList(req.args), Following(<<>>))
    /\ FirstSpecIs("*") =>
          IF req.args = <<>>
          THEN BindsThen(PyTuple(<<>>), Following(<<>>))
          ELSE BindsThen(PyList(req.args), Following(<<>>))

\* [x, y] against file+, after [] against file+ would have failed
C15_witness ==
    /\ BindEnded
    /\ req.takes_args = <<"file+">>
    /\ req.args = <<"x", "y">>
    /\ res = Return([file_list |-> PyList(<<"x", "y">>)])
    /\ match_argform(req.cmd, req.takes_args, <<>>).raised
    /\ match_argform(req.cmd, <<"pathspec*">>, <<>>) = Return([pathspec_list |-> PyTuple(<<>>)])

(***************************************************************************)
(* C16  A plain spec consumes exactly the first remaining token and fails  *)
(* descriptively when none remains; a "?" spec binds the first remaining   *)
(* token if there is one and otherwise leaves its name unbound without     *)
(* error; any token left after all specs makes the binding fail            *)
(* descriptively, so a successful binding never leaves a token over.       *)
(***************************************************************************)
\* the number of tokens a bound value holds
TokensIn(v) == IF v.t = "str" THEN 1 ELSE Len(v.items)

RECURSIVE TokensBound(_)
TokensBound(argdict) ==
    IF DOMAIN argdict = {} THEN 0
    ELSE LET k == CHOOSE k \in DOMAIN argdict : TRUE
         IN  TokensIn(argdict[k]) + TokensBound([j \in DOMAIN argdict \ {k} |-> argdict[j]])

C16_plain_optional_leftover ==
    /\ FirstSpecIs("plain") =>
          IF req.args = <<>>
          THEN FailsNaming(Mentioned(Head(req.takes_args)))
          ELSE BindsThen(Str(<<Head(req.args)>>), Following(Tail(req.args)))
    /\ FirstSpecIs("?") =>
          IF req.args = <<>>
          THEN /\ res = Following(<<>>)
               /\ ~res.raised => BoundKey(Head(req.takes_args)) \notin DOMAIN res.val
          ELSE BindsThen(Str(<<Head(req.args)>>), Following(Tail(req.args)))
    /\ (BindEnded /\ req.takes_args = <<>> /\ req.args # <<>>) =>
          FailsNaming(Head(req.args))
    /\ (BindEnded /\ ~res.raised) => TokensBound(res.val) = Len(req.args)

\* a, topic? on one token: a takes it, topic stays unbound; a second token
\* would go to topic and a third would be left over
C16_witness ==
    /\ BindEnded
    /\ req.takes_args = <<"a", "topic?">>
    /\ req.args = <<"x">>
    /\ res = Return([a |-> Str(<<"x">>)])
    /\ match_argform(req.cmd, req.takes_args, <<"x", "y">>)
          = Return([a |-> Str(<<"x">>), topic |-> Str(<<"y">>)])
    /\ match_argform(req.cmd, req.takes_args, <<"x", "y", "z">>).raised

(***************************************************************************)
(* C18  In every reachable registry state (after construction with any    *)
(* set of commands and after any sequence of add_command calls) the name   *)
(* "help" resolves to the built-in cmd_help; no registration removes or    *)
(* replaces it.                                                            *)
(***************************************************************************)
HelpIsBuiltin(reg) ==
    \A alias \in BOOLEAN : get_command(reg, "help", alias) = Return(Instance(BuiltinHelp))

\* the claim as stated
C18_help_is_builtin == HelpIsBuiltin(registry)

\* as amended: construction always ends with the built-in under "help", and
\* add_command keeps it there unless the added class is itself named help
C18_help_is_builtin_amended ==
    /\ HelpIsBuiltin(registry)
    /\ [][(pc = "idle" /\ op' = "add_command" /\ HelpIsBuiltin(registry)
              /\ name(req'.command) # "help")
            => HelpIsBuiltin(registry')]_vars

\* a registry built from another class named cmd_help (so "help" is the
\* first key) has the built-in under "help", and still has after cmd_spam
\* was added
C18_witness ==
    /\ AddedCommand
    /\ req.command = "cmd_spam"
    /\ registry[1] = [name |-> "help", cls |-> BuiltinHelp]
    /\ HelpIsBuiltin(registry)

(***************************************************************************)
(* C20  Every dispatch of a resolved command through run_argv_aliases      *)
(* invokes that command's cleanup() exactly once whatever path it takes,   *)
(* including the help/usage short-circuit and a failure of option parsing  *)
(* or argument binding.                                                    *)
(***************************************************************************)
Resolved == RunEnded /\ cur # "none"

\* the claim as stated
C20_cleanup_every_path == Resolved => Count("cleanup") = 1

\* as amended: cleanup() runs once, and last, when the dispatch reaches
\* run_direct; a dispatch that ends before (help, usage, a parse or a
\* binding failure) invokes no hook at all
C20_cleanup_every_path_amended ==
    Resolved =>
        IF direct = NoCall
        THEN hooks = <<>>
        ELSE Count("cleanup") = 1 /\ HookNames[Len(hooks)] = "cleanup"

\* spam --help: the help text is written, 0 is returned, no hook has run
C20_witness ==
    /\ Resolved
    /\ req.argv = <<"spam", "--help">>
    /\ res = Return(PyInt(0))
    /\ out # <<>>
    /\ direct = NoCall
    /\ hooks = <<>>

(***************************************************************************)
(* C17  Two calls of get_command with the same name on the same registry   *)
(* return two distinct command instances with no shared mutable state:     *)
(* mutating the parameter bag, or any instance attribute, of one never     *)
(* changes the other, nor the instance returned by any later get_command   *)
(* call.                                                                   *)
(***************************************************************************)
\* what an instance looks like: its class and the contents of its attributes
View(h, inst) ==
    [cls |-> inst.cls,
     param |-> h[inst.param],
     supported_std_options |-> h[inst.supported_std_options]]

\* an instance nobody has touched, of a class registered at construction
Untouched(cls) ==
    [cls |-> cls,
     param |-> [k \in {"cmd:help_output", "cmd:tool_name"} |->
                   IF k = "cmd:help_output" THEN "CLI._output_help" ELSE "tool"],
     supported_std_options |-> <<>>]

\* the caller's statement mutates its i-th instance
Mutates(i) ==
    /\ pc = "idle"
    /\ pc' = "done"
    /\ op' \in {"param_set", "param_del", "param_rebind", "std_append"}
    /\ req'.inst = i

\* get_command returns an instance
Gets == pc = "idle" /\ op' = "get_command" /\ ~res'.raised

C17_independent_instances ==
    [][/\ \A i \in DOMAIN instances :
            Mutates(i) =>
                /\ \A j \in DOMAIN instances \ {i} :
                      View(heap', instances'[j]) = View(heap, instances[j])
                /\ \A c \in DOMAIN cmd_param :
                      heap'[cmd_param'[c]] = heap[cmd_param[c]]
       /\ Gets =>
            /\ Len(instances') = Len(instances) + 1
            /\ View(heap', instances'[Len(instances')]) = Untouched(res'.val.cls)
            /\ \A j \in DOMAIN instances :
                  /\ instances'[j] = instances[j]
                  /\ View(heap', instances'[j]) = View(heap, instances[j])
                  /\ {instances'[Len(instances')].param,
                      instances'[Len(instances')].supported_std_options}
                        \cap {instances[j].param,
                              instances[j].supported_std_options} = {}]_vars

\* get_command("spam") a second time, after the first instance had its bag
\* replaced, an item set in it and a name appended to its
\* supported_std_options: the second instance is as if nothing had happened
C17_witness ==
    /\ GotCommand
    /\ req.name = "spam"
    /\ Len(instances) = 2
    /\ instances[1].cls = "cmd_spam"
    /\ View(heap, instances[2]) = Untouched("cmd_spam")
    /\ heap[instances[1].param] = [k \in {"x"} |-> "other"]
    /\ heap[instances[1].supported_std_options] = <<"help">>

(***************************************************************************)
(* C19  Lock.lock() on a lock file that already exists (held by another    *)
(* Lock object or process) raises CannotLockError when tryonly is false    *)
(* and returns False without raising when tryonly is true; in both cases   *)
(* the calling Lock object stays in the unlocked state.                    *)
(***************************************************************************)
\* a Lock object that does not hold its lock calls lock(tryonly) while the
\* lock file exists
LocksExisting(tryonly) ==
    /\ pc = "idle"
    /\ op' \in {"lock", "try_lock"}
    /\ req'.tryonly = tryonly
    /\ fileno[req'.lock] = None
    /\ Path(req'.lock) \in files

\* the claim as stated
C19_lock_existing ==
    [][/\ LocksExisting(FALSE) =>
            /\ res'.raised
            /\ IsInstance(res'.exc, "CannotLockError")
            /\ fileno'[req'.lock] = None
       /\ LocksExisting(TRUE) =>
            /\ res' = Return([t |-> "bool", v |-> FALSE])
            /\ fileno'[req'.lock] = None]_vars

(***************************************************************************)
(* C21  Registering a command never disturbs a previous registration:      *)
(* every canonical name and every alias that resolved to some command      *)
(* class through get_command before an add_command call resolves to the    *)
(* same command class after it, whatever the name and aliases of the       *)
(* newly added command are.                                                *)
(***************************************************************************)
\* every name of ns that resolved in before resolves to the same class in after
StillResolve(before, after, ns) ==
    \A n \in ns, alias \in BOOLEAN :
        ~get_command(before, n, alias).raised =>
            get_command(after, n, alias) = get_command(before, n, alias)

\* the names add_command(c) may take over: c's canonical name and, when a
\* command is registered under that name already, the aliases of that
\* command and those of c, which takes its place in the order
TakenOver(reg, c) ==
    {name(c)} \cup
        IF \E i \in DOMAIN reg : reg[i].name = name(c)
        THEN aliases(c) \cup
                UNION {aliases(reg[i].cls) : i \in {j \in DOMAIN reg : reg[j].name = name(c)}}
        ELSE {}

\* the claim as stated
C21_no_disturbance ==
    [][(pc = "idle" /\ op' = "add_command") =>
          StillResolve(registry, registry', Names)]_vars

\* as amended
C21_no_disturbance_amended ==
    [][(pc = "idle" /\ op' = "add_command") =>
          StillResolve(registry, registry', Names \ TakenOver(registry, req'.command))]_vars

\* cmd_bar (aliases eggs and foo) added after cmd_spam (alias eggs) and
\* cmd_foo: "eggs" is still cmd_spam and "foo" is still cmd_foo
C21_witness ==
    /\ AddedCommand
    /\ req.command = "cmd_bar"
    /\ registry[Len(registry)].cls = "cmd_bar"
    /\ get_command(registry, "eggs", TRUE) = Return(Instance("cmd_spam"))
    /\ get_command(registry, "foo", TRUE) = Return(Instance("cmd_foo"))
    /\ get_command(registry, "bar", TRUE) = Return(Instance("cmd_bar"))

(***************************************************************************)
(* C23  When a name is at the same time the canonical name of one          *)
(* registered command and an alias of another, has_command(name,           *)
(* alias=True) and get_command(name, alias=True) disagree.                 *)
(***************************************************************************)
\* a has_command call has returned
HadCommand == pc = "done" /\ op = "has_command"

\* has_command(name, alias=True) was asked about a name that is the key of
\* one registered command and an alias of another
KeyAndAlias ==
    /\ HadCommand
    /\ req.alias
    /\ \E i, j \in DOMAIN registry :
          /\ i # j
          /\ registry[i].name = req.name
          /\ req.name \in aliases(registry[j].cls)

\* has_command says the command exists exactly when get_command returns one
Agree == (res.val.v = TRUE) <=> ~get_command(registry, req.name, req.alias).raised

\* the claim as stated
C23_lookups_disagree == KeyAndAlias => ~Agree

\* as amended: the two never disagree; for a name that is a key and an
\* alias, has_command is True and get_command returns the command
\* registered under the key
C23_lookups_disagree_amended ==
    /\ HadCommand => res.val.t = "bool" /\ Agree
    /\ KeyAndAlias =>
          /\ res = Return([t |-> "bool", v |-> TRUE])
          /\ \E i \in DOMAIN registry :
                /\ registry[i].name = req.name
                /\ get_command(registry, req.name, TRUE) = Return(Instance(registry[i].cls))

\* "foo" is the key of cmd_foo and an alias of cmd_bar, which comes first in
\* the registry: has_command is True and get_command returns cmd_foo
C23_witness ==
    /\ KeyAndAlias
    /\ req.name = "foo"
    /\ registry[1].cls = "cmd_bar"
    /\ res = Return([t |-> "bool", v |-> TRUE])
    /\ get_command(registry, "foo", TRUE) = Return(Instance("cmd_foo"))

(***************************************************************************)
(* C24  When two different registered commands declare the same alias and  *)
(* no command has that alias as its canonical name, get_command(alias,     *)
(* alias=True) resolves to the command that was registered last.           *)
(***************************************************************************)
\* the places in the registry of the commands that declare the alias
Holders(reg, a) == {i \in DOMAIN reg : a \in aliases(reg[i].cls)}

\* an alias of two registered commands that is no command's canonical name
SharedAlias(reg, a) ==
    /\ Cardinality(Holders(reg, a)) >= 2
    /\ \A i \in DOMAIN reg : reg[i].name # a

\* the claim as stated: right after add_command(c), c is the command that
\* was registered last
C24_last_registered_wins ==
    [][(pc = "idle" /\ op' = "add_command") =>
          \A a \in aliases(req'.command) :
              SharedAlias(registry', a) =>
                  get_command(registry', a, TRUE) = Return(Instance(req'.command))]_vars

\* as amended: the command that comes first in the registry's order wins,
\* which is the one whose canonical name was registered first
C24_last_registered_wins_amended ==
    (GotCommand /\ req.alias /\ SharedAlias(registry, req.name)) =>
        \E i \in Holders(registry, req.name) :
            /\ \A j \in Holders(registry, req.name) : i <= j
            /\ res = Return(Instance(registry[i].cls))

\* cmd_spam, then cmd_bar, both with the alias eggs: "eggs" is cmd_spam
C24_witness ==
    /\ GotCommand
    /\ req = [name |-> "eggs", alias |-> TRUE]
    /\ SharedAlias(registry, "eggs")
    /\ registry[1].cls = "cmd_spam"
    /\ res = Return(Instance("cmd_spam"))

(***************************************************************************)
(* C22  A command instance obtained from a registry always carries the     *)
(* parameter bag of that registry: after every sequence of CLI             *)
(* constructions and add_command calls (other CLI instances that register  *)
(* the same command class included), get_command(n).param holds the        *)
(* registry's tool name and its help-output sink.                          *)
(***************************************************************************)
\* the bag of the instance get_command has just returned
ReturnedParam == heap[instances[Len(instances)].param]

C22_registry_bag ==
    (GotCommand /\ ~res.raised) =>
        /\ {"cmd:tool_name", "cmd:help_output"} \subseteq DOMAIN ReturnedParam
        /\ ReturnedParam["cmd:tool_name"] = "tool"
        /\ ReturnedParam["cmd:help_output"] = "CLI._output_help"

(***************************************************************************)
(* C27  Whenever the argument binder succeeds, the bound values, taken in  *)
(* the order of the grammar (one token for a plain or a bound "?" spec,    *)
(* the sequence of a "*", "+" or "$" spec, nothing for an unbound "?"      *)
(* spec), concatenate to exactly the input tokens; and a "?" spec takes    *)
(* the only token even if the plain spec after it then fails.              *)
(***************************************************************************)
\* the tokens a bound value holds, in order
TokensOf(v) == IF v.t = "str" THEN v.s ELSE v.items

\* the bound values in the order the grammar declares the specs
RECURSIVE BoundInOrder(_, _)
BoundInOrder(specs, argdict) ==
    IF specs = <<>> THEN <<>>
    ELSE (IF BoundKey(Head(specs)) \in DOMAIN argdict
          THEN TokensOf(argdict[BoundKey(Head(specs))]) ELSE <<>>)
         \o BoundInOrder(Tail(specs), argdict)

\* "?" then a plain spec, on one token: the "?" spec has taken it
OptionalTakesOnly ==
    (/\ FirstSpecIs("?")
     /\ Len(req.takes_args) = 2
     /\ Marker(req.takes_args[2]) = "plain"
     /\ Len(req.args) = 1) => FailsNaming(Mentioned(req.takes_args[2]))

\* no two specs of the grammar bind the same key
DistinctKeys(specs) ==
    \A i, j \in DOMAIN specs : i # j => BoundKey(specs[i]) # BoundKey(specs[j])

\* as stated: for every grammar
C27_tokens_in_order ==
    /\ (BindEnded /\ ~res.raised) => BoundInOrder(req.takes_args, res.val) = req.args
    /\ OptionalTakesOnly

\* C27 as it holds: for the grammars whose specs bind distinct keys; when a
\* key is bound twice tokens are lost, never added
C27_tokens_in_order_amended ==
    /\ (BindEnded /\ ~res.raised /\ DistinctKeys(req.takes_args)) =>
          BoundInOrder(req.takes_args, res.val) = req.args
    /\ (BindEnded /\ ~res.raised /\ ~DistinctKeys(req.takes_args)) =>
          TokensBound(res.val) <= Len(req.args)
    /\ OptionalTakesOnly

\* [x, y, z] against topic? src$ dst
C27_witness ==
    /\ BindEnded
    /\ req.takes_args = <<"topic?", "src$", "dst">>
    /\ req.args = <<"x", "y", "z">>
    /\ res = Return([topic |-> Str(<<"x">>), src_list |-> PyList(<<"y">>),
                     dst |-> Str(<<"z">>)])
    /\ match_argform(req.cmd, <<"topic?", "a">>, <<"x">>).raised

(***************************************************************************)
(* C25  Every option declared hidden, boolean, value-taking or list-valued,*)
(* is left out of the options help of the command, while its switch is     *)
(* still accepted on the command line and bound.                           *)
(***************************************************************************)
HelpRendered == pc = "done" /\ op = "get_help_text" /\ ~res.raised
ParseEnded == pc = "done" /\ op = "parse_args"

\* the help text has an entry for the switch --n
OptionShown(n, text) ==
    \E i \in DOMAIN text.s : i < Len(text.s) /\ text.s[i] = "--" /\ text.s[i + 1] = n

HiddenOptions(c) ==
    {options(c)[i] : i \in {j \in DOMAIN options(c) : options(c)[j].hidden}}

\* the option a token of ProbeTokens is a switch of
TokenOption(tok) ==
    CASE tok \in {"--dry-run", "--no-dry-run", "-n", "-nn"} -> opt_dry_run
      [] tok \in {"--api-key=s", "-ks"} -> opt_api_key
      [] tok \in {"--tag-name=a", "--tag-name=-", "-tb"} -> opt_tag_name
      [] tok = "--verbose" -> opt_verbose

C25_hidden_omitted ==
    /\ HelpRendered => \A o \in HiddenOptions(req.cmd) : ~OptionShown(o.name, res.val)
    /\ ParseEnded =>
          /\ ~res.raised
          /\ \A i \in DOMAIN req.argv :
                param_name(TokenOption(req.argv[i])) \in DOMAIN res.val.opts

(***************************************************************************)
(* C26  For every option variant that has a post-process hook, each        *)
(* occurrence of the option on the command line invokes the hook exactly   *)
(* once, after the value has been stored, with the option's param_name and *)
(* the stored value.                                                       *)
(***************************************************************************)
\* the calls the hook has recorded
HookCalls ==
    IF "calls" \in DOMAIN res.val.opts THEN res.val.opts["calls"].items ELSE <<>>

\* how many times the tokens give the option o
RECURSIVE Occurrences(_, _)
Occurrences(o, argv) ==
    IF argv = <<>> THEN 0
    ELSE (IF TokenOption(Head(argv)) # o THEN 0 ELSE IF Head(argv) = "-nn" THEN 2 ELSE 1)
         + Occurrences(o, Tail(argv))

\* the calls made with the name n, in order
CallsNamed(n) == SelectSeq(HookCalls, LAMBDA call : call[1] = n)

C26_hook_per_occurrence ==
    (ParseEnded /\ ~res.raised) =>
        \A o \in HiddenOptions(req.cmd) :
            /\ Len(CallsNamed(param_name(o))) = Occurrences(o, req.argv)
            /\ Occurrences(o, req.argv) > 0 =>
                  CallsNamed(param_name(o))[Occurrences(o, req.argv)][2]
                      = res.val.opts[param_name(o)]

====
